---- MODULE Spec2Model ----
(***************************************************************************)
(* Verification model of the synchronization primitives of the repository: *)
(*   - TASLock, TTASLock, MCSLock            (excercise1/lock.h)            *)
(*   - TASLockWithBackoff, TTASLockWithBackoff (exercise1/performance.cpp) *)
(*   - SenseReversingBarrier                 (exercise2/my_barrier.cpp)    *)
(*   - MutexCounter, CompareSwapCounter, FetchAddCounter                   *)
(*                                           (exercise3/main.cpp)          *)
(* Every atomic access of the source is one step of the thread that makes  *)
(* it; accesses to thread-private data are folded into the adjacent step.  *)
(* An atomic access reads the latest value of its location.  What a thread *)
(* may read from the plain counter that the locks guard follows from       *)
(* happens-before: a view of the counter's stores travels from a thread to *)
(* another only through a release store (or read-modify-write) read by an  *)
(* acquire load (or read-modify-write), as the source orders them.         *)
(***************************************************************************)
EXTENDS Integers, Sequences, FiniteSets, TLC

(***************************************************************************)
(* Bounds of the model.                                                    *)
(***************************************************************************)
\* largest number of worker threads the lock harness starts
NumThreads == 4
\* largest iterations_per_thread of the lock harness
MaxIters == 3
\* number of threads the barrier harness starts
NumParties == 3
\* num_iterations of the barrier harness (phases)
MaxPhases == 3
\* largest number of worker threads started on a lock with backoff
NumBackoffThreads == 2
\* largest number of acquisitions in one run (num_threads * iterations_per_thread)
MaxRounds == 6
\* failed polls of the sense flag that one wait() call makes at most
MaxPolls == 2
\* largest num_threads of the counter test
NumCounterThreads == 3
\* largest operations_per_thread of the counter test
MaxOps == 3
\* largest number of increment() calls in one test (num_threads * operations_per_thread)
MaxCalls == 8
\* rounds of each worker in the runs of the backoff locks that are long enough
\* for the delay of TTASLockWithBackoff to reach MAX_DELAY
BackoffIters == 11

(***************************************************************************)
(* Program constants.                                                      *)
(***************************************************************************)
MAX_DELAY == 1024
INITIAL_DELAY == 1
BARRIER_DELAY_CAP == 1000
COUNTER_DELAY_CAP == 1000

Threads == 1..NumThreads
Parties == 1..NumParties
CounterThreads == 1..NumCounterThreads
\* nullptr of an MCSLock::Node*; a non-null pointer is the id of the thread
\* that owns the node
NULL == 0
LockTypes == {"TAS", "TTAS", "TASB", "TTASB", "MCS"}
\* two MCSLock objects
LockInstances == {"A", "B"}
FlagTypes == {"TAS", "TTAS", "TASB", "TTASB"}

VARIABLES
    \* ---- lock harness (test_correctness / benchmark / thread_entry) ----
    lockType,       \* which LockType the harness is instantiated with
    workers,        \* num_threads of the harness
    iterations,     \* iterations_per_thread
    counter,        \* the plain shared int guarded by the lock
    pc,             \* pc[t]: position of worker t
    iter,           \* iter[t]: loop index i of worker t
    tmp,            \* tmp[t]: value read by the load half of counter++
    \* ---- happens-before (release/acquire) bookkeeping ----
    written,        \* the values stored to the plain counter so far, in order
    view,           \* view[t]: how many of those stores happen-before t's next step
    rel_locked,     \* view released with the value now in 'locked'
    \* ---- TASLock / TTASLock (and backoff variants) ----
    locked,         \* std::atomic<bool> locked
    delay,          \* delay[t]: local 'delay' of acquire() (backoff variants)
    \* history: t's last access to the flag in this call of lock() was a load
    \* that read false
    tested,
    \* history, kept for TASLock and TTASLock and for one caller, worker 1: the
    \* acquisitions by other threads since that caller called lock(), while it
    \* is inside that call
    bypass,
    \* ---- MCSLock ----
    tail,           \* std::atomic<Node*> tail
    node_next,      \* node_next[t]: Node::next of t's node
    node_locked,    \* node_locked[t]: Node::locked of t's node
    predecessor,    \* predecessor[t]: local of lock()
    next,           \* next[t]: local of unlock()
    rel_tail,       \* view released with the value now in 'tail'
    rel_next,       \* rel_next[n]: view released with the value now in n's next
    rel_nlocked,    \* rel_nlocked[n]: view released with the value now in n's locked
    \* history: the stores other threads made into a node's fields since its
    \* owner last initialised it, each shown by the arrival index of the storer
    locked_log, next_log,
    \* history: arrival index given at the tail exchange, and grants so far
    ticket, nextTicket, served,
    \* ---- SenseReversingBarrier and its callers ----
    constructed,    \* the constructor has run
    num_threads,    \* const int num_threads
    count,          \* std::atomic<int> count
    sense,          \* std::atomic<bool> sense
    my_sense,       \* my_sense[p]: thread_local static bool my_sense
    my_sense_local, \* my_sense_local[p]: local of wait()
    bdelay,         \* bdelay[p]: local 'delay' of wait()
    bpc,            \* bpc[p]: position of party p
    j,              \* j[p]: wait() calls party p has returned from (loop index)
    \* history: stores to the sense flag so far
    flips,
    \* ---- the counters of exercise3 and testCounter ----
    kind,           \* which Counter the test is given
    cthreads,       \* num_threads of testCounter
    cops,           \* operations_per_thread
    start,          \* std::atomic<bool> start
    value,          \* int64_t value / std::atomic<int64_t> value
    mtx,            \* std::mutex mtx: its owner, or NULL
    cpc,            \* cpc[t]: position of test thread t
    cj,             \* cj[t]: loop index j, the increment() calls t has completed
    current,        \* current[t]: local of CompareSwapCounter::increment
    cdelay,         \* cdelay[t]: local 'delay' of CompareSwapCounter::increment
    \* ---- two MCSLock instances used through acquire() / release() ----
    tailOf,         \* tailOf[m]: std::atomic<Node*> tail of instance m
    plan,           \* plan[t]: the acquire() / release() calls thread t makes
    step            \* step[t]: how many of them have returned

\* the harness parameters, fixed once the threads run
config == <<lockType, workers, iterations>>
mcsVars == <<tail, node_next, node_locked, predecessor, next, ticket, nextTicket,
             served, rel_tail, rel_next, rel_nlocked, locked_log, next_log>>
\* the happens-before bookkeeping of the harness and the flag locks
hbVars == <<written, view, rel_locked>>
lockVars == <<config, counter, pc, iter, tmp, locked, delay, tested, bypass, hbVars,
              mcsVars>>
barrierVars == <<constructed, num_threads, count, sense, my_sense, my_sense_local,
                 bdelay, bpc, j, flips>>

counterVars == <<kind, cthreads, cops, start, value, mtx, cpc, cj, current, cdelay>>

\* the two-instance harness
nestVars == <<tailOf, plan, step>>

\* what the steps of the lock harness leave alone, and those of the barrier
nonLockVars == <<barrierVars, counterVars, nestVars>>
nonBarrierVars == <<lockVars, counterVars, nestVars>>

vars == <<lockVars, barrierVars, counterVars, nestVars>>

Workers == 1..workers
IsBackoff(type) == type \in {"TASB", "TTASB"}

\* the caller whose waiting the history of overtaking follows
Observed == 1

(***************************************************************************)
(* The worker loop: for (i = 0; i < iterations; i++) { acquire();          *)
(* counter++; release(); }                                                 *)
(***************************************************************************)
\* release() returns from the last round: the worker's thread function ends
Exits(t) == iter[t] + 1 >= iterations

\* the next loop test after release() has returned; the view of a thread
\* that has ended is of no further use
Return(t) ==
    /\ iter' = [iter EXCEPT ![t] = @ + 1]
    /\ pc' = [pc EXCEPT ![t] = IF Exits(t) THEN "done" ELSE "idle"]
    /\ view' = [view EXCEPT ![t] = IF Exits(t) THEN 0 ELSE @]

\* what a thread with view v knows after a load (or read-modify-write) with
\* memory_order_acquire of a location whose value was released with view r
AcquireView(v, r) == IF r > v THEN r ELSE v

\* mutant: the store is relaxed, nothing is released with it
RelaxedStoreView(v) == 0

\* the view a store with memory_order_release by a thread with view v
\* attaches to the value it writes
ReleaseView(v) == v

\* a store with memory_order_relaxed releases nothing
NoView == 0

\* entry of acquire() of a flag lock: 'unsigned delay = INITIAL_DELAY' in the
\* backoff variants, then the first statement of the loop
Call(t) ==
    /\ lockType \in FlagTypes
    /\ pc[t] = "idle"
    /\ pc' = [pc EXCEPT ![t] = IF lockType \in {"TAS", "TASB"} THEN "tas" ELSE "test"]
    /\ delay' = [delay EXCEPT ![t] = IF IsBackoff(lockType) THEN INITIAL_DELAY ELSE @]
    /\ bypass' = IF t = Observed THEN 0 ELSE bypass
    /\ tested' = [tested EXCEPT ![t] = FALSE]
    /\ UNCHANGED <<config, mcsVars, hbVars, counter, iter, tmp, locked, nonLockVars>>

\* the values a read of the plain counter by t can return: the last value
\* stored when every store happens-before the read; otherwise the read races
\* with a store and any value the counter has had since t's view can appear
ValueAt(i) == IF i = 0 THEN 0 ELSE written[i]
Readable(t) ==
    IF view[t] >= Len(written)
      THEN {counter}
      ELSE {ValueAt(i) : i \in view[t]..Len(written)}

\* counter++ on a plain int: the load ...
CounterRead(t) ==
    /\ pc[t] = "cs"
    /\ \E v \in Readable(t) : tmp' = [tmp EXCEPT ![t] = v]
    /\ pc' = [pc EXCEPT ![t] = "incr"]
    /\ UNCHANGED <<config, mcsVars, hbVars, counter, iter, locked, delay, tested, bypass, nonLockVars>>

\* ... and the store
CounterWrite(t) ==
    /\ pc[t] = "incr"
    /\ counter' = tmp[t] + 1
    /\ tmp' = [tmp EXCEPT ![t] = 0]
    /\ written' = Append(written, tmp[t] + 1)
    /\ view' = [view EXCEPT ![t] = Len(written) + 1]
    /\ pc' = [pc EXCEPT ![t] = "release"]
    /\ UNCHANGED <<config, mcsVars, rel_locked, iter, locked, delay, tested, bypass, nonLockVars>>

\* the history of overtaking once t has acquired a flag lock: the observed
\* caller, if it is inside lock(), has been overtaken once more
Overtakes(t) ==
    IF t = Observed THEN 0
    ELSE IF pc[Observed] \in {"test", "tas"} THEN bypass + 1
    ELSE bypass

(***************************************************************************)
(* TASLock                                                                 *)
(***************************************************************************)
\* mutant: the exchange leaves the flag as it found it
ExchangeKeep(old) == old

\* mutant: the exchange writes the negation of what it read
ExchangeToggle(old) == ~old

\* the value locked.exchange(true) leaves in the flag
ExchangeTrue(old) == TRUE

\* while (locked.exchange(true, acquire)) {}
TASLock_lock(t) ==
    /\ lockType = "TAS"
    /\ pc[t] = "tas"
    /\ locked' = ExchangeTrue(locked)
    /\ pc' = [pc EXCEPT ![t] = IF locked THEN "tas" ELSE "cs"]
    /\ view' = [view EXCEPT ![t] = AcquireView(@, rel_locked)]
    /\ bypass' = IF locked THEN bypass ELSE Overtakes(t)
    /\ UNCHANGED <<config, mcsVars, written, rel_locked, counter, iter, tmp, delay, tested, nonLockVars>>

\* mutant: unlock() returns without the store
TASLock_unlock_Skip(t) ==
    /\ lockType = "TAS"
    /\ pc[t] = "release"
    /\ Return(t)
    /\ UNCHANGED <<config, mcsVars, written, rel_locked, counter, tmp, locked, delay,
                   tested, bypass, nonLockVars>>

\* locked.store(false, release)
TASLock_unlock(t) ==
    /\ lockType = "TAS"
    /\ pc[t] = "release"
    /\ locked' = FALSE
    /\ Return(t)
    /\ rel_locked' = ReleaseView(view[t])
    /\ UNCHANGED <<config, mcsVars, written, counter, tmp, delay, tested, bypass, nonLockVars>>

(***************************************************************************)
(* TTASLock                                                                *)
(***************************************************************************)
\* while (locked.load(relaxed)) {}
TTASLock_test(t) ==
    /\ lockType = "TTAS"
    /\ pc[t] = "test"
    /\ pc' = [pc EXCEPT ![t] = IF locked THEN "test" ELSE "tas"]
    /\ tested' = [tested EXCEPT ![t] = ~locked]
    /\ UNCHANGED <<config, mcsVars, hbVars, counter, iter, tmp, locked, delay, bypass, nonLockVars>>

\* mutant: after the test the flag is set by a plain store, not an exchange
TTASLock_exchange_NonAtomic(t) ==
    /\ lockType = "TTAS"
    /\ pc[t] = "tas"
    /\ locked' = TRUE
    /\ pc' = [pc EXCEPT ![t] = "cs"]
    /\ rel_locked' = NoView
    /\ tested' = [tested EXCEPT ![t] = FALSE]
    /\ bypass' = Overtakes(t)
    /\ UNCHANGED <<config, mcsVars, written, view, counter, iter, tmp, delay, nonLockVars>>

\* mutant: an exchange that read true is retried at once, without a test
TTASLock_exchange_Retry(t) ==
    /\ lockType = "TTAS"
    /\ pc[t] = "tas"
    /\ locked' = ExchangeTrue(locked)
    /\ pc' = [pc EXCEPT ![t] = IF locked THEN "tas" ELSE "cs"]
    /\ view' = [view EXCEPT ![t] = AcquireView(@, rel_locked)]
    /\ tested' = [tested EXCEPT ![t] = FALSE]
    /\ bypass' = IF locked THEN bypass ELSE Overtakes(t)
    /\ UNCHANGED <<config, mcsVars, written, rel_locked, counter, iter, tmp, delay, nonLockVars>>

\* if (!locked.exchange(true, acquire)) return;  else back to the test loop
TTASLock_exchange(t) ==
    /\ lockType = "TTAS"
    /\ pc[t] = "tas"
    /\ locked' = ExchangeTrue(locked)
    /\ pc' = [pc EXCEPT ![t] = IF locked THEN "test" ELSE "cs"]
    /\ view' = [view EXCEPT ![t] = AcquireView(@, rel_locked)]
    /\ tested' = [tested EXCEPT ![t] = FALSE]
    /\ bypass' = IF locked THEN bypass ELSE Overtakes(t)
    /\ UNCHANGED <<config, mcsVars, written, rel_locked, counter, iter, tmp, delay, nonLockVars>>

\* locked.store(false, release)
TTASLock_unlock(t) ==
    /\ lockType = "TTAS"
    /\ pc[t] = "release"
    /\ locked' = FALSE
    /\ Return(t)
    /\ rel_locked' = ReleaseView(view[t])
    /\ UNCHANGED <<config, mcsVars, written, counter, tmp, delay, tested, bypass, nonLockVars>>

(***************************************************************************)
(* TASLockWithBackoff / TTASLockWithBackoff                                *)
(***************************************************************************)
\* mutant: the delay is doubled whatever its value
NextDelay_NoCap(d) == d * 2

\* sleep_for(delay); if (delay < MAX_DELAY) delay *= 2;
NextDelay(d) == IF d < MAX_DELAY THEN d * 2 ELSE d

\* while (locked.exchange(true, acquire)) { sleep; grow delay }
TASLockWithBackoff_acquire(t) ==
    /\ lockType = "TASB"
    /\ pc[t] = "tas"
    /\ locked' = ExchangeTrue(locked)
    /\ IF locked
         THEN /\ delay' = [delay EXCEPT ![t] = NextDelay(@)]
              /\ pc' = pc
         ELSE /\ delay' = [delay EXCEPT ![t] = 0]
              /\ pc' = [pc EXCEPT ![t] = "cs"]
    /\ view' = [view EXCEPT ![t] = AcquireView(@, rel_locked)]
    /\ UNCHANGED <<config, mcsVars, written, rel_locked, counter, iter, tmp, tested, bypass, nonLockVars>>

TASLockWithBackoff_release(t) ==
    /\ lockType = "TASB"
    /\ pc[t] = "release"
    /\ locked' = FALSE
    /\ Return(t)
    /\ rel_locked' = ReleaseView(view[t])
    /\ UNCHANGED <<config, mcsVars, written, counter, tmp, delay, tested, bypass, nonLockVars>>

\* while (locked.load(relaxed)) {}
TTASLockWithBackoff_test(t) ==
    /\ lockType = "TTASB"
    /\ pc[t] = "test"
    /\ pc' = [pc EXCEPT ![t] = IF locked THEN "test" ELSE "tas"]
    /\ tested' = [tested EXCEPT ![t] = ~locked]
    /\ UNCHANGED <<config, mcsVars, hbVars, counter, iter, tmp, locked, delay, bypass, nonLockVars>>

\* if (!locked.exchange(true, acquire)) return;  sleep; grow delay; back to the test
TTASLockWithBackoff_exchange(t) ==
    /\ lockType = "TTASB"
    /\ pc[t] = "tas"
    /\ locked' = ExchangeTrue(locked)
    /\ IF locked
         THEN /\ delay' = [delay EXCEPT ![t] = NextDelay(@)]
              /\ pc' = [pc EXCEPT ![t] = "test"]
         ELSE /\ delay' = [delay EXCEPT ![t] = 0]
              /\ pc' = [pc EXCEPT ![t] = "cs"]
    /\ view' = [view EXCEPT ![t] = AcquireView(@, rel_locked)]
    /\ tested' = [tested EXCEPT ![t] = FALSE]
    /\ UNCHANGED <<config, mcsVars, written, rel_locked, counter, iter, tmp, bypass, nonLockVars>>

TTASLockWithBackoff_release(t) ==
    /\ lockType = "TTASB"
    /\ pc[t] = "release"
    /\ locked' = FALSE
    /\ Return(t)
    /\ rel_locked' = ReleaseView(view[t])
    /\ UNCHANGED <<config, mcsVars, written, counter, tmp, delay, tested, bypass, nonLockVars>>

(***************************************************************************)
(* MCSLock.  Worker t always passes its own node (the thread-local node of *)
(* acquire()/release(), or the stack node of the caller, which occupies    *)
(* the same slot in every iteration); a Node* is the id of its owner.  The *)
(* node keeps its fields from one round to the next; it ceases to exist    *)
(* when its thread ends, and is then shown in its constructed state.       *)
(***************************************************************************)
\* the view a read-modify-write leaves with the value it writes: it continues
\* the release sequence it read from (view r) and adds what it releases (view v)
Join(r, v) == IF v > r THEN v ELSE r

\* field f of the nodes once unlock() of t has returned: the node of a thread
\* that ends ceases to exist and is shown as constructed (value v)
Gone(f, t, v) == IF Exits(t) THEN [f EXCEPT ![t] = v] ELSE f

\* mutant: lock() does not initialise the node before it publishes it
MCSInit_Skip(t) ==
    /\ lockType = "MCS"
    /\ pc[t] = "idle"
    /\ next_log' = [next_log EXCEPT ![t] = <<>>]
    /\ locked_log' = [locked_log EXCEPT ![t] = <<>>]
    /\ pc' = [pc EXCEPT ![t] = "xchg"]
    /\ UNCHANGED <<config, counter, iter, tmp, locked, delay, hbVars, tail,
                   node_next, node_locked, rel_next, rel_nlocked, predecessor,
                   next, ticket, nextTicket, served, rel_tail, tested, bypass, nonLockVars>>

\* mutant: the node's flag is initialised to false
MCSInit_Unlocked(t) ==
    /\ lockType = "MCS"
    /\ pc[t] = "idle"
    /\ node_next' = [node_next EXCEPT ![t] = NULL]
    /\ node_locked' = [node_locked EXCEPT ![t] = FALSE]
    /\ rel_next' = [rel_next EXCEPT ![t] = NoView]
    /\ rel_nlocked' = [rel_nlocked EXCEPT ![t] = NoView]
    /\ next_log' = [next_log EXCEPT ![t] = <<>>]
    /\ locked_log' = [locked_log EXCEPT ![t] = <<>>]
    /\ pc' = [pc EXCEPT ![t] = "xchg"]
    /\ UNCHANGED <<config, counter, iter, tmp, locked, delay, hbVars, tail,
                   predecessor, next, ticket, nextTicket, served, rel_tail,
                   tested, bypass, nonLockVars>>

\* mutant: next is not cleared, the node keeps its link of the round before
MCSInit_KeepNext(t) ==
    /\ lockType = "MCS"
    /\ pc[t] = "idle"
    /\ node_locked' = [node_locked EXCEPT ![t] = TRUE]
    /\ rel_nlocked' = [rel_nlocked EXCEPT ![t] = NoView]
    /\ next_log' = [next_log EXCEPT ![t] = <<>>]
    /\ locked_log' = [locked_log EXCEPT ![t] = <<>>]
    /\ pc' = [pc EXCEPT ![t] = "xchg"]
    /\ UNCHANGED <<config, counter, iter, tmp, locked, delay, hbVars, tail,
                   node_next, rel_next, predecessor, next, ticket, nextTicket,
                   served, rel_tail, tested, bypass, nonLockVars>>

\* Entry of lock(): myNode.next.store(nullptr, relaxed);
\* myNode.locked.store(true, relaxed).
\* The two stores go to different fields of the caller's own node and no
\* thread reads a field of that node between them, so they are one step.
MCSInit(t) ==
    /\ lockType = "MCS"
    /\ pc[t] = "idle"
    /\ node_next' = [node_next EXCEPT ![t] = NULL]
    /\ node_locked' = [node_locked EXCEPT ![t] = TRUE]
    /\ rel_next' = [rel_next EXCEPT ![t] = NoView]
    /\ rel_nlocked' = [rel_nlocked EXCEPT ![t] = NoView]
    /\ next_log' = [next_log EXCEPT ![t] = <<>>]
    /\ locked_log' = [locked_log EXCEPT ![t] = <<>>]
    /\ pc' = [pc EXCEPT ![t] = "xchg"]
    /\ UNCHANGED <<config, counter, iter, tmp, locked, delay, hbVars, tail,
                   predecessor, next, ticket, nextTicket, served, rel_tail,
                   tested, bypass, nonLockVars>>

\* predecessor = tail.exchange(&myNode, acq_rel); if (predecessor != nullptr) ...
\* With no predecessor lock() returns at once: the caller is granted the lock.
MCSExchange(t) ==
    /\ lockType = "MCS"
    /\ pc[t] = "xchg"
    /\ predecessor' = [predecessor EXCEPT ![t] = tail]
    /\ tail' = t
    /\ view' = [view EXCEPT ![t] = AcquireView(@, rel_tail)]
    /\ rel_tail' = Join(rel_tail, ReleaseView(AcquireView(view[t], rel_tail)))
    /\ ticket' = [ticket EXCEPT ![t] = nextTicket]
    /\ nextTicket' = nextTicket + 1
    /\ IF tail = NULL
         THEN /\ pc' = [pc EXCEPT ![t] = "cs"]
              /\ served' = served + 1
         ELSE /\ pc' = [pc EXCEPT ![t] = "link"]
              /\ served' = served
    /\ UNCHANGED <<config, counter, iter, tmp, locked, delay, written, rel_locked,
                   node_next, node_locked, next, rel_next, rel_nlocked,
                   locked_log, next_log, tested, bypass, nonLockVars>>

\* mutant: the link is made the wrong way round, from the new node to its
\* predecessor
MCSLink_Backwards(t) ==
    /\ lockType = "MCS"
    /\ pc[t] = "link"
    /\ node_next' = [node_next EXCEPT ![t] = predecessor[t]]
    /\ rel_next' = [rel_next EXCEPT ![t] = ReleaseView(view[t])]
    /\ pc' = [pc EXCEPT ![t] = "spin"]
    /\ UNCHANGED <<config, counter, iter, tmp, locked, delay, hbVars, tail,
                   node_locked, predecessor, next, ticket, nextTicket, served,
                   rel_tail, rel_nlocked, locked_log, next_log, tested, bypass, nonLockVars>>

\* predecessor->next.store(&myNode, release)
MCSLink(t) ==
    /\ lockType = "MCS"
    /\ pc[t] = "link"
    /\ node_next' = [node_next EXCEPT ![predecessor[t]] = t]
    /\ rel_next' = [rel_next EXCEPT ![predecessor[t]] = ReleaseView(view[t])]
    /\ next_log' = [next_log EXCEPT ![predecessor[t]] = Append(@, ticket[t])]
    /\ pc' = [pc EXCEPT ![t] = "spin"]
    /\ UNCHANGED <<config, counter, iter, tmp, locked, delay, hbVars, tail,
                   node_locked, predecessor, next, ticket, nextTicket, served,
                   rel_tail, rel_nlocked, locked_log, tested, bypass, nonLockVars>>

\* while (myNode.locked.load(acquire)) yield();   then lock() returns
MCSSpin(t) ==
    /\ lockType = "MCS"
    /\ pc[t] = "spin"
    /\ view' = [view EXCEPT ![t] = AcquireView(@, rel_nlocked[t])]
    /\ IF node_locked[t]
         THEN UNCHANGED <<pc, predecessor, served>>
         ELSE /\ pc' = [pc EXCEPT ![t] = "cs"]
              /\ predecessor' = [predecessor EXCEPT ![t] = NULL]
              /\ served' = served + 1
    /\ UNCHANGED <<config, counter, iter, tmp, locked, delay, written, rel_locked,
                   tail, node_next, node_locked, next, ticket, nextTicket,
                   rel_tail, rel_next, rel_nlocked, locked_log, next_log,
                   tested, bypass, nonLockVars>>

\* next = myNode.next.load(acquire); if (next == nullptr) ...
MCSUnlockLoad(t) ==
    /\ lockType = "MCS"
    /\ pc[t] = "release"
    /\ next' = [next EXCEPT ![t] = node_next[t]]
    /\ view' = [view EXCEPT ![t] = AcquireView(@, rel_next[t])]
    /\ predecessor' = [predecessor EXCEPT ![t] = NULL]
    /\ pc' = [pc EXCEPT ![t] = IF node_next[t] = NULL THEN "cas" ELSE "handoff"]
    /\ UNCHANGED <<config, counter, iter, tmp, locked, delay, written, rel_locked,
                   tail, node_next, node_locked, ticket, nextTicket, served,
                   rel_tail, rel_next, rel_nlocked, locked_log, next_log,
                   tested, bypass, nonLockVars>>

\* unlock() returns: what becomes of the caller's node and arrival index
MCSReturn(t) ==
    /\ ticket' = [ticket EXCEPT ![t] = 0]
    /\ Return(t)
    /\ node_next' = Gone(node_next, t, NULL)
    /\ rel_next' = Gone(rel_next, t, NoView)
    /\ next_log' = Gone(next_log, t, <<>>)

\* mutant: tail is cleared by a plain store, whoever it references
MCSUnlockCAS_Store(t) ==
    /\ lockType = "MCS"
    /\ pc[t] = "cas"
    /\ tail' = NULL
    /\ rel_tail' = NoView
    /\ MCSReturn(t)
    /\ node_locked' = Gone(node_locked, t, TRUE)
    /\ rel_nlocked' = Gone(rel_nlocked, t, NoView)
    /\ locked_log' = Gone(locked_log, t, <<>>)
    /\ UNCHANGED <<config, counter, tmp, locked, delay, written, rel_locked,
                   predecessor, next, nextTicket, served, tested, bypass, nonLockVars>>

\* mutant: unlock() returns also when the compare-exchange fails, without
\* waiting for the successor
MCSUnlockCAS_NoWait(t) ==
    /\ lockType = "MCS"
    /\ pc[t] = "cas"
    /\ tail' = IF tail = t THEN NULL ELSE tail
    /\ rel_tail' = IF tail = t THEN Join(rel_tail, ReleaseView(view[t])) ELSE rel_tail
    /\ MCSReturn(t)
    /\ node_locked' = Gone(node_locked, t, TRUE)
    /\ rel_nlocked' = Gone(rel_nlocked, t, NoView)
    /\ locked_log' = Gone(locked_log, t, <<>>)
    /\ UNCHANGED <<config, counter, tmp, locked, delay, written, rel_locked,
                   predecessor, next, nextTicket, served, tested, bypass, nonLockVars>>

\* mutant: the compare-exchange is a weak one, used without a retry loop: it
\* may fail although tail still references the caller's node
MCSUnlockCAS_Weak(t) ==
    /\ lockType = "MCS"
    /\ pc[t] = "cas"
    /\ \/ /\ tail = t
          /\ tail' = NULL
          /\ rel_tail' = Join(rel_tail, ReleaseView(view[t]))
          /\ MCSReturn(t)
          /\ node_locked' = Gone(node_locked, t, TRUE)
          /\ rel_nlocked' = Gone(rel_nlocked, t, NoView)
          /\ locked_log' = Gone(locked_log, t, <<>>)
       \/ /\ pc' = [pc EXCEPT ![t] = "wait_next"]
          /\ UNCHANGED <<tail, rel_tail, iter, view, ticket, node_next,
                         node_locked, rel_next, rel_nlocked, locked_log,
                         next_log>>
    /\ UNCHANGED <<config, counter, tmp, locked, delay, written, rel_locked,
                   predecessor, next, nextTicket, served, tested, bypass, nonLockVars>>

\* if (tail.compare_exchange_strong(expected = &myNode, nullptr, release))
\*     return;
\* (a failed compare-exchange is a relaxed load)
MCSUnlockCAS(t) ==
    /\ lockType = "MCS"
    /\ pc[t] = "cas"
    /\ IF tail = t
         THEN /\ tail' = NULL
              /\ rel_tail' = Join(rel_tail, ReleaseView(view[t]))
              /\ MCSReturn(t)
              /\ node_locked' = Gone(node_locked, t, TRUE)
              /\ rel_nlocked' = Gone(rel_nlocked, t, NoView)
              /\ locked_log' = Gone(locked_log, t, <<>>)
         ELSE /\ pc' = [pc EXCEPT ![t] = "wait_next"]
              /\ UNCHANGED <<tail, rel_tail, iter, view, ticket, node_next,
                             node_locked, rel_next, rel_nlocked, locked_log,
                             next_log>>
    /\ UNCHANGED <<config, counter, tmp, locked, delay, written, rel_locked,
                   predecessor, next, nextTicket, served, tested, bypass, nonLockVars>>

\* mutant: the wait re-loads next once and gives up when it is still empty
MCSUnlockWait_GiveUp(t) ==
    /\ lockType = "MCS"
    /\ pc[t] = "wait_next"
    /\ view' = [view EXCEPT ![t] = AcquireView(@, rel_next[t])]
    /\ IF node_next[t] = NULL
         THEN /\ pc' = [pc EXCEPT ![t] = IF Exits(t) THEN "done" ELSE "idle"]
              /\ iter' = [iter EXCEPT ![t] = @ + 1]
              /\ ticket' = [ticket EXCEPT ![t] = 0]
              /\ next' = next
         ELSE /\ pc' = [pc EXCEPT ![t] = "handoff"]
              /\ next' = [next EXCEPT ![t] = node_next[t]]
              /\ UNCHANGED <<iter, ticket>>
    /\ UNCHANGED <<config, counter, tmp, locked, delay, written, rel_locked,
                   tail, node_next, node_locked, predecessor, nextTicket,
                   served, rel_tail, rel_next, rel_nlocked, locked_log, next_log,
                   tested, bypass, nonLockVars>>

\* do { yield(); next = myNode.next.load(acquire); } while (next == nullptr);
MCSUnlockWait(t) ==
    /\ lockType = "MCS"
    /\ pc[t] = "wait_next"
    /\ next' = [next EXCEPT ![t] = node_next[t]]
    /\ view' = [view EXCEPT ![t] = AcquireView(@, rel_next[t])]
    /\ pc' = [pc EXCEPT ![t] = IF node_next[t] = NULL THEN "wait_next" ELSE "handoff"]
    /\ UNCHANGED <<config, counter, iter, tmp, locked, delay, written, rel_locked,
                   tail, node_next, node_locked, predecessor, ticket, nextTicket,
                   served, rel_tail, rel_next, rel_nlocked, locked_log, next_log,
                   tested, bypass, nonLockVars>>

\* mutant: the handoff store goes to the node tail references, not to the
\* caller's successor
MCSHandoff_Tail(t) ==
    /\ lockType = "MCS"
    /\ pc[t] = "handoff"
    /\ node_locked' = [Gone(node_locked, t, TRUE) EXCEPT ![tail] = FALSE]
    /\ rel_nlocked' = [Gone(rel_nlocked, t, NoView) EXCEPT
                          ![tail] = ReleaseView(view[t])]
    /\ locked_log' = [Gone(locked_log, t, <<>>) EXCEPT
                          ![tail] = Append(locked_log[tail], ticket[t])]
    /\ next' = [next EXCEPT ![t] = NULL]
    /\ MCSReturn(t)
    /\ UNCHANGED <<config, counter, tmp, locked, delay, written, rel_locked, tail,
                   predecessor, nextTicket, served, rel_tail, tested, bypass, nonLockVars>>

\* mutant: the handoff clears the flag of every node that waits, not only
\* that of the caller's successor
MCSHandoff_Broadcast(t) ==
    /\ lockType = "MCS"
    /\ pc[t] = "handoff"
    /\ node_locked' = [u \in Threads |->
                          IF pc[u] \in {"link", "spin"} THEN FALSE
                          ELSE Gone(node_locked, t, TRUE)[u]]
    /\ rel_nlocked' = [u \in Threads |->
                          IF pc[u] \in {"link", "spin"} THEN ReleaseView(view[t])
                          ELSE Gone(rel_nlocked, t, NoView)[u]]
    /\ locked_log' = [Gone(locked_log, t, <<>>) EXCEPT
                          ![next[t]] = Append(locked_log[next[t]], ticket[t])]
    /\ next' = [next EXCEPT ![t] = NULL]
    /\ MCSReturn(t)
    /\ UNCHANGED <<config, counter, tmp, locked, delay, written, rel_locked, tail,
                   predecessor, nextTicket, served, rel_tail, tested, bypass, nonLockVars>>

\* mutant: unlock() returns without the handoff store
MCSHandoff_Skip(t) ==
    /\ lockType = "MCS"
    /\ pc[t] = "handoff"
    /\ node_locked' = Gone(node_locked, t, TRUE)
    /\ rel_nlocked' = Gone(rel_nlocked, t, NoView)
    /\ locked_log' = Gone(locked_log, t, <<>>)
    /\ next' = [next EXCEPT ![t] = NULL]
    /\ MCSReturn(t)
    /\ UNCHANGED <<config, counter, tmp, locked, delay, written, rel_locked, tail,
                   predecessor, nextTicket, served, rel_tail, tested, bypass, nonLockVars>>

\* next->locked.store(false, release)
MCSHandoff(t) ==
    /\ lockType = "MCS"
    /\ pc[t] = "handoff"
    /\ node_locked' = [Gone(node_locked, t, TRUE) EXCEPT ![next[t]] = FALSE]
    /\ rel_nlocked' = [Gone(rel_nlocked, t, NoView) EXCEPT
                          ![next[t]] = ReleaseView(view[t])]
    /\ locked_log' = [Gone(locked_log, t, <<>>) EXCEPT
                          ![next[t]] = Append(locked_log[next[t]], ticket[t])]
    /\ next' = [next EXCEPT ![t] = NULL]
    /\ MCSReturn(t)
    /\ UNCHANGED <<config, counter, tmp, locked, delay, written, rel_locked, tail,
                   predecessor, nextTicket, served, rel_tail, tested, bypass, nonLockVars>>

(***************************************************************************)
(* The lock harness: a lock of one of the five types, 'workers' threads,   *)
(* 'iterations' rounds each.                                               *)
(***************************************************************************)
\* the lock, the workers' locals and the histories before any worker has run
LockFresh ==
    /\ counter = 0
    /\ pc = [t \in Threads |-> IF t <= workers THEN "idle" ELSE "off"]
    /\ iter = [t \in Threads |-> 0]
    /\ tmp = [t \in Threads |-> 0]
    /\ locked = FALSE
    /\ delay = [t \in Threads |-> 0]
    /\ tested = [t \in Threads |-> FALSE]
    /\ bypass = 0
    /\ tail = NULL
    /\ node_next = [t \in Threads |-> NULL]
    /\ node_locked = [t \in Threads |-> TRUE]
    /\ predecessor = [t \in Threads |-> NULL]
    /\ next = [t \in Threads |-> NULL]
    /\ ticket = [t \in Threads |-> 0]
    /\ nextTicket = 0
    /\ served = 0
    /\ written = <<>>
    /\ view = [t \in Threads |-> 0]
    /\ rel_locked = NoView
    /\ rel_tail = NoView
    /\ rel_next = [t \in Threads |-> NoView]
    /\ rel_nlocked = [t \in Threads |-> NoView]
    /\ locked_log = [t \in Threads |-> <<>>]
    /\ next_log = [t \in Threads |-> <<>>]

LockInit ==
    /\ lockType \in LockTypes
    /\ workers \in 1..(IF IsBackoff(lockType) THEN NumBackoffThreads ELSE NumThreads)
    /\ iterations \in 1..MaxIters
    /\ workers * iterations <= MaxRounds
    /\ LockFresh

\* no thread uses the two MCSLock instances
NestIdle ==
    /\ tailOf = [m \in LockInstances |-> NULL]
    /\ plan = [t \in Threads |-> <<>>]
    /\ step = [t \in Threads |-> 0]

\* no barrier is in use
BarrierIdle ==
    /\ constructed = FALSE
    /\ num_threads = 0
    /\ count = 0
    /\ sense = TRUE
    /\ my_sense = [p \in Parties |-> TRUE]
    /\ my_sense_local = [p \in Parties |-> TRUE]
    /\ bdelay = [p \in Parties |-> 0]
    /\ bpc = [p \in Parties |-> "off"]
    /\ j = [p \in Parties |-> 0]
    /\ flips = 0

\* no counter test is running
CounterIdle ==
    /\ kind = "FetchAdd"
    /\ cthreads = 0
    /\ cops = 0
    /\ start = FALSE
    /\ value = 0
    /\ mtx = NULL
    /\ cpc = [t \in CounterThreads |-> "off"]
    /\ cj = [t \in CounterThreads |-> 0]
    /\ current = [t \in CounterThreads |-> 0]
    /\ cdelay = [t \in CounterThreads |-> 0]

Init == LockInit /\ BarrierIdle /\ CounterIdle /\ NestIdle

Next ==
    \E t \in Threads :
        \/ Call(t)
        \/ CounterRead(t)
        \/ CounterWrite(t)
        \/ TASLock_lock(t)
        \/ TASLock_unlock(t)
        \/ TTASLock_test(t)
        \/ TTASLock_exchange(t)
        \/ TTASLock_unlock(t)
        \/ TASLockWithBackoff_acquire(t)
        \/ TASLockWithBackoff_release(t)
        \/ TTASLockWithBackoff_test(t)
        \/ TTASLockWithBackoff_exchange(t)
        \/ TTASLockWithBackoff_release(t)
        \/ MCSInit(t)
        \/ MCSExchange(t)
        \/ MCSLink(t)
        \/ MCSSpin(t)
        \/ MCSUnlockLoad(t)
        \/ MCSUnlockCAS(t)
        \/ MCSUnlockWait(t)
        \/ MCSHandoff(t)

Spec == Init /\ [][Next]_vars

(***************************************************************************)
(* SenseReversingBarrier.  The callers are NumParties threads that each    *)
(* run  for (j = 0; j < num_iterations; ++j) barrier.wait();  a caller may *)
(* also leave its loop early (a thread that crashes or calls wait() fewer  *)
(* times than the others).                                                 *)
(***************************************************************************)
\* the arguments the constructor is called with: the invalid counts -1 and 0,
\* the number of caller threads, and one more than there are callers
CtorArgs == ((-1)..0) \cup (NumParties..(NumParties + 1))

\* largest delay for which a failed poll is still explored
PollCap == 2 ^ MaxPolls

Min(a, b) == IF a < b THEN a ELSE b

\* mutant: the constructor leaves count at 0
Construct_NoCount(n) ==
    /\ ~constructed
    /\ constructed' = TRUE
    /\ num_threads' = n
    /\ count' = 0
    /\ sense' = TRUE
    /\ bpc' = [p \in Parties |-> "idle"]
    /\ UNCHANGED <<nonBarrierVars, my_sense, my_sense_local, bdelay, j, flips>>

\* SenseReversingBarrier(int n) : count(n), sense(true), num_threads(n) {}
\* and the start of the caller threads
Construct(n) ==
    /\ ~constructed
    /\ constructed' = TRUE
    /\ num_threads' = n
    /\ count' = n
    /\ sense' = TRUE
    /\ bpc' = [p \in Parties |-> "idle"]
    /\ UNCHANGED <<nonBarrierVars, my_sense, my_sense_local, bdelay, j, flips>>

\* a further instance for the same caller threads, constructed once they have
\* all completed the same number of wait() calls on the previous one: its
\* count and sense start as in the constructor, the callers' loops start
\* over, and  thread_local bool SenseReversingBarrier::my_sense  is the one
\* value of each thread, which no constructor touches
ConstructAnother(n) ==
    /\ constructed
    /\ \A p \in Parties : bpc[p] \in {"idle", "done"} /\ j[p] = j[1]
    /\ j[1] >= 1
    /\ num_threads' = n
    /\ count' = n
    /\ sense' = TRUE
    /\ bpc' = [p \in Parties |-> "idle"]
    /\ j' = [p \in Parties |-> 0]
    /\ flips' = 0
    /\ UNCHANGED <<nonBarrierVars, constructed, my_sense, my_sense_local, bdelay>>

\* wait() returns; the caller's next loop test
BarrierReturn(p) ==
    /\ j' = [j EXCEPT ![p] = @ + 1]
    /\ bpc' = [bpc EXCEPT ![p] = IF j[p] + 1 < MaxPhases THEN "idle" ELSE "done"]

\* mutant: the last arrival is recognised by the value the decrement leaves
FetchSub_PostValue(p) ==
    /\ constructed
    /\ bpc[p] = "idle"
    /\ my_sense_local' = [my_sense_local EXCEPT ![p] = my_sense[p]]
    /\ count' = count - 1
    /\ IF count - 1 = 1
         THEN /\ bpc' = [bpc EXCEPT ![p] = "reset"]
              /\ bdelay' = bdelay
         ELSE /\ bpc' = [bpc EXCEPT ![p] = "poll"]
              /\ bdelay' = [bdelay EXCEPT ![p] = 1]
    /\ UNCHANGED <<nonBarrierVars, constructed, num_threads, sense, my_sense, j, flips>>

\* my_sense_local = my_sense; if (count.fetch_sub(1) == 1) ... else delay = 1
FetchSub(p) ==
    /\ constructed
    /\ bpc[p] = "idle"
    /\ my_sense_local' = [my_sense_local EXCEPT ![p] = my_sense[p]]
    /\ count' = count - 1
    /\ IF count = 1
         THEN /\ bpc' = [bpc EXCEPT ![p] = "reset"]
              /\ bdelay' = bdelay
         ELSE /\ bpc' = [bpc EXCEPT ![p] = "poll"]
              /\ bdelay' = [bdelay EXCEPT ![p] = 1]
    /\ UNCHANGED <<nonBarrierVars, constructed, num_threads, sense, my_sense, j, flips>>

\* mutant: the count is not reset
ResetCount_Skip(p) ==
    /\ bpc[p] = "reset"
    /\ bpc' = [bpc EXCEPT ![p] = "flip"]
    /\ UNCHANGED <<nonBarrierVars, constructed, num_threads, count, sense, my_sense,
                   my_sense_local, bdelay, j, flips>>

\* mutant: the two stores of the last arriver are exchanged, the sense is
\* published first and the count reset afterwards
ResetCount_AfterFlip(p) ==
    \/ /\ bpc[p] = "reset"
       /\ sense' = ~my_sense_local[p]
       /\ flips' = flips + 1
       /\ bpc' = [bpc EXCEPT ![p] = "late_reset"]
       /\ UNCHANGED <<nonBarrierVars, constructed, num_threads, count, my_sense,
                      my_sense_local, bdelay, j>>
    \/ /\ bpc[p] = "late_reset"
       /\ count' = num_threads
       /\ my_sense' = [my_sense EXCEPT ![p] = ~my_sense_local[p]]
       /\ BarrierReturn(p)
       /\ UNCHANGED <<nonBarrierVars, constructed, num_threads, sense,
                      my_sense_local, bdelay, flips>>

\* count.store(num_threads)
ResetCount(p) ==
    /\ bpc[p] = "reset"
    /\ count' = num_threads
    /\ bpc' = [bpc EXCEPT ![p] = "flip"]
    /\ UNCHANGED <<nonBarrierVars, constructed, num_threads, sense, my_sense,
                   my_sense_local, bdelay, j, flips>>

\* mutant: the last arriver does not flip its own local sense
FlipSense_KeepLocal(p) ==
    /\ bpc[p] = "flip"
    /\ sense' = ~my_sense_local[p]
    /\ flips' = flips + 1
    /\ BarrierReturn(p)
    /\ UNCHANGED <<nonBarrierVars, constructed, num_threads, count, my_sense,
                   my_sense_local, bdelay>>

\* sense.store(!my_sense_local); my_sense = !my_sense_local; return
FlipSense(p) ==
    /\ bpc[p] = "flip"
    /\ sense' = ~my_sense_local[p]
    /\ flips' = flips + 1
    /\ my_sense' = [my_sense EXCEPT ![p] = ~my_sense_local[p]]
    /\ BarrierReturn(p)
    /\ UNCHANGED <<nonBarrierVars, constructed, num_threads, count, my_sense_local,
                   bdelay>>

\* mutant: the delay is doubled without a cap
backoff_NoCap(d) == d * 2

\* backoff(delay): sleep_for(delay); delay = std::min(delay * 2, 1000)
backoff(d) == Min(d * 2, BARRIER_DELAY_CAP)

\* mutant: the poll loop runs while the sense differs from the local sense
Poll_Inverted(p) ==
    /\ bpc[p] = "poll"
    /\ IF sense # my_sense_local[p]
         THEN /\ bdelay[p] < PollCap
              /\ bdelay' = [bdelay EXCEPT ![p] = backoff(@)]
              /\ UNCHANGED <<my_sense, bpc, j>>
         ELSE /\ bdelay' = [bdelay EXCEPT ![p] = 0]
              /\ my_sense' = [my_sense EXCEPT ![p] = ~my_sense_local[p]]
              /\ BarrierReturn(p)
    /\ UNCHANGED <<nonBarrierVars, constructed, num_threads, count, sense,
                   my_sense_local, flips>>

\* mutant: a waiter returns after its first poll, flipped sense or not
PollWithin_NoWait(p, cap) ==
    /\ bpc[p] = "poll"
    /\ bdelay' = [bdelay EXCEPT ![p] = 0]
    /\ my_sense' = [my_sense EXCEPT ![p] = ~my_sense_local[p]]
    /\ BarrierReturn(p)
    /\ UNCHANGED <<nonBarrierVars, constructed, num_threads, count, sense,
                   my_sense_local, flips>>

\* mutant: a waiter returns without flipping its local sense
PollWithin_KeepLocal(p, cap) ==
    /\ bpc[p] = "poll"
    /\ IF sense = my_sense_local[p]
         THEN /\ bdelay[p] < cap
              /\ bdelay' = [bdelay EXCEPT ![p] = backoff(@)]
              /\ UNCHANGED <<bpc, j>>
         ELSE /\ bdelay' = [bdelay EXCEPT ![p] = 0]
              /\ BarrierReturn(p)
    /\ UNCHANGED <<nonBarrierVars, constructed, num_threads, count, sense, my_sense,
                   my_sense_local, flips>>

\* mutant: a waiter that has seen the sense flipped stores it once more
PollWithin_Echo(p, cap) ==
    /\ bpc[p] = "poll"
    /\ IF sense = my_sense_local[p]
         THEN /\ bdelay[p] < cap
              /\ bdelay' = [bdelay EXCEPT ![p] = backoff(@)]
              /\ UNCHANGED <<my_sense, bpc, j, sense, flips>>
         ELSE /\ bdelay' = [bdelay EXCEPT ![p] = 0]
              /\ sense' = ~my_sense_local[p]
              /\ flips' = flips + 1
              /\ my_sense' = [my_sense EXCEPT ![p] = ~my_sense_local[p]]
              /\ BarrierReturn(p)
    /\ UNCHANGED <<nonBarrierVars, constructed, num_threads, count, my_sense_local>>

\* while (sense.load() == my_sense_local) backoff(delay);
\* my_sense = !my_sense_local; return
\* (a failed poll is explored while the delay is below cap)
PollWithin(p, cap) ==
    /\ bpc[p] = "poll"
    /\ IF sense = my_sense_local[p]
         THEN /\ bdelay[p] < cap
              /\ bdelay' = [bdelay EXCEPT ![p] = backoff(@)]
              /\ UNCHANGED <<my_sense, bpc, j>>
         ELSE /\ bdelay' = [bdelay EXCEPT ![p] = 0]
              /\ my_sense' = [my_sense EXCEPT ![p] = ~my_sense_local[p]]
              /\ BarrierReturn(p)
    /\ UNCHANGED <<nonBarrierVars, constructed, num_threads, count, sense,
                   my_sense_local, flips>>

\* the poll loop with its first failed polls explored
Poll(p) == PollWithin(p, PollCap)

\* the poll loop with every failed poll explored: the delay grows until
\* backoff() leaves it as it is
LongPoll(p) == PollWithin(p, BARRIER_DELAY_CAP + 1)

\* a caller leaves its loop before num_iterations calls
Leave(p) ==
    /\ bpc[p] = "idle"
    /\ bpc' = [bpc EXCEPT ![p] = "done"]
    /\ UNCHANGED <<nonBarrierVars, constructed, num_threads, count, sense, my_sense,
                   my_sense_local, bdelay, j, flips>>

\* no lock harness is running
LockIdle ==
    /\ lockType = "TAS"
    /\ workers = 0
    /\ iterations = 0
    /\ counter = 0
    /\ pc = [t \in Threads |-> "off"]
    /\ iter = [t \in Threads |-> 0]
    /\ tmp = [t \in Threads |-> 0]
    /\ locked = FALSE
    /\ delay = [t \in Threads |-> 0]
    /\ tested = [t \in Threads |-> FALSE]
    /\ bypass = 0
    /\ tail = NULL
    /\ node_next = [t \in Threads |-> NULL]
    /\ node_locked = [t \in Threads |-> TRUE]
    /\ predecessor = [t \in Threads |-> NULL]
    /\ next = [t \in Threads |-> NULL]
    /\ ticket = [t \in Threads |-> 0]
    /\ nextTicket = 0
    /\ served = 0
    /\ written = <<>>
    /\ view = [t \in Threads |-> 0]
    /\ rel_locked = NoView
    /\ rel_tail = NoView
    /\ rel_next = [t \in Threads |-> NoView]
    /\ rel_nlocked = [t \in Threads |-> NoView]
    /\ locked_log = [t \in Threads |-> <<>>]
    /\ next_log = [t \in Threads |-> <<>>]

BarrierInit == LockIdle /\ BarrierIdle /\ CounterIdle /\ NestIdle

BarrierNext ==
    \/ \E n \in CtorArgs : Construct(n)
    \/ \E p \in Parties :
        \/ FetchSub(p)
        \/ ResetCount(p)
        \/ FlipSense(p)
        \/ Poll(p)
        \/ Leave(p)

SpecBarrier == BarrierInit /\ [][BarrierNext]_vars

(***************************************************************************)
(* The counters of exercise3: MutexCounter, CompareSwapCounter and         *)
(* FetchAddCounter, driven by testCounter: 'cthreads' threads wait for the *)
(* start flag and then call increment() 'cops' times each.                 *)
(***************************************************************************)
CounterKinds == {"Mutex", "CompareSwap", "FetchAdd"}

\* start = true
SetStart ==
    /\ cthreads > 0
    /\ ~start
    /\ start' = TRUE
    /\ UNCHANGED <<lockVars, barrierVars, nestVars, kind, cthreads, cops, value, mtx, cpc, cj,
                   current, cdelay>>

\* while (!start) yield();
AwaitStart(t) ==
    /\ cpc[t] = "wait"
    /\ cpc' = [cpc EXCEPT ![t] = IF start THEN "idle" ELSE "wait"]
    /\ UNCHANGED <<lockVars, barrierVars, nestVars, kind, cthreads, cops, start, value, mtx,
                   cj, current, cdelay>>

\* increment() returns: ++j and the loop test
CounterReturn(t) ==
    /\ cj' = [cj EXCEPT ![t] = @ + 1]
    /\ cpc' = [cpc EXCEPT ![t] = IF cj[t] + 1 < cops THEN "idle" ELSE "done"]

\* MutexCounter::increment: mtx.lock()
MutexCounter_lock(t) ==
    /\ kind = "Mutex"
    /\ cpc[t] = "idle"
    /\ mtx = NULL
    /\ mtx' = t
    /\ cpc' = [cpc EXCEPT ![t] = "mread"]
    /\ UNCHANGED <<lockVars, barrierVars, nestVars, kind, cthreads, cops, start, value, cj,
                   current, cdelay>>

\* value++ on a plain int64_t: the load ...
MutexCounter_read(t) ==
    /\ cpc[t] = "mread"
    /\ current' = [current EXCEPT ![t] = value]
    /\ cpc' = [cpc EXCEPT ![t] = "mwrite"]
    /\ UNCHANGED <<lockVars, barrierVars, nestVars, kind, cthreads, cops, start, value, mtx,
                   cj, cdelay>>

\* ... and the store
MutexCounter_write(t) ==
    /\ cpc[t] = "mwrite"
    /\ value' = current[t] + 1
    /\ current' = [current EXCEPT ![t] = 0]
    /\ cpc' = [cpc EXCEPT ![t] = "munlock"]
    /\ UNCHANGED <<lockVars, barrierVars, nestVars, kind, cthreads, cops, start, mtx, cj,
                   cdelay>>

\* mtx.unlock()
MutexCounter_unlock(t) ==
    /\ cpc[t] = "munlock"
    /\ mtx' = NULL
    /\ CounterReturn(t)
    /\ UNCHANGED <<lockVars, barrierVars, nestVars, kind, cthreads, cops, start, value,
                   current, cdelay>>

\* CompareSwapCounter::increment: int delay = 1 on entry; current = value.load()
CompareSwapCounter_load(t) ==
    /\ kind = "CompareSwap"
    /\ cpc[t] \in {"idle", "retry"}
    /\ current' = [current EXCEPT ![t] = value]
    /\ cdelay' = [cdelay EXCEPT ![t] = IF cpc[t] = "idle" THEN 1 ELSE @]
    /\ cpc' = [cpc EXCEPT ![t] = "cas"]
    /\ UNCHANGED <<lockVars, barrierVars, nestVars, kind, cthreads, cops, start, value, mtx, cj>>

\* CompareSwapCounter::backoff: sleep_for(delay); delay = std::min(delay * 2, 1000)
CompareSwapCounter_backoff(d) == Min(d * 2, COUNTER_DELAY_CAP)

\* mutant: the new value is stored whether or not the value is still 'current'
CompareSwapCounter_cas_Store(t) ==
    /\ cpc[t] = "cas"
    /\ value' = current[t] + 1
    /\ current' = [current EXCEPT ![t] = 0]
    /\ CounterReturn(t)
    /\ UNCHANGED <<lockVars, barrierVars, nestVars, kind, cthreads, cops, start, mtx, cdelay>>

\* if (value.compare_exchange_strong(current, current + 1)) break;
\* backoff(delay);
CompareSwapCounter_cas(t) ==
    /\ cpc[t] = "cas"
    /\ IF value = current[t]
         THEN /\ value' = current[t] + 1
              /\ current' = [current EXCEPT ![t] = 0]
              /\ CounterReturn(t)
              /\ cdelay' = cdelay
         ELSE /\ value' = value
              /\ current' = [current EXCEPT ![t] = value]
              /\ cdelay' = [cdelay EXCEPT ![t] = CompareSwapCounter_backoff(@)]
              /\ cpc' = [cpc EXCEPT ![t] = "retry"]
              /\ cj' = cj
    /\ UNCHANGED <<lockVars, barrierVars, nestVars, kind, cthreads, cops, start, mtx>>

\* FetchAddCounter::increment: value.fetch_add(1)
FetchAddCounter_increment(t) ==
    /\ kind = "FetchAdd"
    /\ cpc[t] = "idle"
    /\ value' = value + 1
    /\ CounterReturn(t)
    /\ UNCHANGED <<lockVars, barrierVars, nestVars, kind, cthreads, cops, start, mtx, current,
                   cdelay>>

\* testCounter: a counter at 0 and its threads created, start not yet set
CounterStart ==
    /\ kind \in CounterKinds
    /\ cthreads \in 1..NumCounterThreads
    /\ cops \in 1..MaxOps
    /\ cthreads * cops <= MaxCalls
    /\ start = FALSE
    /\ value = 0
    /\ mtx = NULL
    /\ cpc = [t \in CounterThreads |-> IF t <= cthreads THEN "wait" ELSE "off"]
    /\ cj = [t \in CounterThreads |-> 0]
    /\ current = [t \in CounterThreads |-> 0]
    /\ cdelay = [t \in CounterThreads |-> 0]

CounterInit == LockIdle /\ BarrierIdle /\ CounterStart /\ NestIdle

CounterNext ==
    \/ SetStart
    \/ \E t \in CounterThreads :
        \/ AwaitStart(t)
        \/ MutexCounter_lock(t)
        \/ MutexCounter_read(t)
        \/ MutexCounter_write(t)
        \/ MutexCounter_unlock(t)
        \/ CompareSwapCounter_load(t)
        \/ CompareSwapCounter_cas(t)
        \/ FetchAddCounter_increment(t)

SpecCounter == CounterInit /\ [][CounterNext]_vars

\* the harness run with the two backoff locks only and for more rounds, by
\* two workers: while one acquires the lock round after round, the exchanges
\* of the other keep failing
BackoffInit ==
    /\ lockType \in {"TASB", "TTASB"}
    /\ workers = 2
    /\ iterations = BackoffIters
    /\ LockFresh
    /\ BarrierIdle
    /\ CounterIdle
    /\ NestIdle

BackoffNext ==
    \E t \in Threads :
        \/ Call(t)
        \/ CounterRead(t)
        \/ CounterWrite(t)
        \/ TASLockWithBackoff_acquire(t)
        \/ TASLockWithBackoff_release(t)
        \/ TTASLockWithBackoff_test(t)
        \/ TTASLockWithBackoff_exchange(t)
        \/ TTASLockWithBackoff_release(t)

SpecBackoff == BackoffInit /\ [][BackoffNext]_vars

\* one step of worker t
Step(t) ==
    \/ Call(t)
    \/ CounterRead(t)
    \/ CounterWrite(t)
    \/ TASLock_lock(t)
    \/ TASLock_unlock(t)
    \/ TTASLock_test(t)
    \/ TTASLock_exchange(t)
    \/ TTASLock_unlock(t)
    \/ TASLockWithBackoff_acquire(t)
    \/ TASLockWithBackoff_release(t)
    \/ TTASLockWithBackoff_test(t)
    \/ TTASLockWithBackoff_exchange(t)
    \/ TTASLockWithBackoff_release(t)
    \/ MCSInit(t)
    \/ MCSExchange(t)
    \/ MCSLink(t)
    \/ MCSSpin(t)
    \/ MCSUnlockLoad(t)
    \/ MCSUnlockCAS(t)
    \/ MCSUnlockWait(t)
    \/ MCSHandoff(t)

\* The threads are operating-system threads: each one that can take a step
\* that changes the state eventually takes one.
FairSpec == Init /\ [][Next]_vars /\ \A t \in Threads : WF_vars(Step(t))

\* Misuse by a caller: a round of the worker that calls unlock()/release()
\* without having called lock()/acquire() in it (the release of a lock the
\* caller does not hold; after a regular round, a double release).  The call
\* then runs the code of unlock() as any other call does.  An MCS caller passes
\* its thread-local node, as release() does.
MisuseUnlock(t) ==
    /\ pc[t] = "idle"
    /\ pc' = [pc EXCEPT ![t] = "release"]
    /\ UNCHANGED <<config, mcsVars, hbVars, counter, iter, tmp, locked, delay, tested, bypass, nonLockVars>>

MisuseNext == \E t \in Threads : Step(t) \/ MisuseUnlock(t)

\* the lock harness with callers that may misuse the lock
SpecMisuse == Init /\ [][MisuseNext]_vars

\* one step of caller p that stays in its loop
PartyStep(p) ==
    \/ FetchSub(p)
    \/ ResetCount(p)
    \/ FlipSense(p)
    \/ Poll(p)

\* the barrier harness as written: a barrier for exactly the threads that
\* are started, every thread calling wait() in every phase
ExactNext ==
    \/ Construct(NumParties)
    \/ \E p \in Parties : PartyStep(p)

\* the barrier for exactly the threads that are started, with waiters that
\* may poll in vain any number of times
PollNext ==
    \/ Construct(NumParties)
    \/ \E p \in Parties :
        \/ FetchSub(p)
        \/ ResetCount(p)
        \/ FlipSense(p)
        \/ LongPoll(p)

SpecPoll == BarrierInit /\ [][PollNext]_vars

\* the caller threads use one barrier instance after another
InstancesNext ==
    \/ Construct(NumParties)
    \/ ConstructAnother(NumParties)
    \/ \E p \in Parties : PartyStep(p)

SpecInstances == BarrierInit /\ [][InstancesNext]_vars

(***************************************************************************)
(* Two MCSLock instances used through the no-argument acquire() and        *)
(* release(), which pass the caller's one threadLocalNode to lock() and    *)
(* unlock() whatever the instance.  node_next[t] and node_locked[t] are    *)
(* the fields of t's threadLocalNode; the node outlives every call.        *)
(***************************************************************************)
\* a thread holds A and B at once, B inside A
Nested == << <<"acquire", "A">>, <<"acquire", "B">>,
             <<"release", "B">>, <<"release", "A">> >>

\* a thread uses both instances, one after the other
Sequential == << <<"acquire", "A">>, <<"release", "A">>,
                 <<"acquire", "B">>, <<"release", "B">> >>

\* a thread uses one instance only
Only(m) == << <<"acquire", m>>, <<"release", m>> >>

Plans == {Nested, Sequential} \cup {Only(m) : m \in LockInstances}

\* the threads of the two-instance harness
Nesters == 1..(NumThreads - 1)

NestInit ==
    /\ lockType = "MCS"
    /\ workers = NumThreads - 1
    /\ iterations = 1
    /\ LockFresh
    /\ BarrierIdle
    /\ CounterIdle
    /\ tailOf = [m \in LockInstances |-> NULL]
    /\ plan \in [Threads -> Plans \cup {<<>>}]
    /\ \A t \in Threads : (plan[t] = <<>>) <=> (t \notin Nesters)
    /\ step = [t \in Threads |-> 0]

\* the call t makes next, or is inside
NextOp(t) == plan[t][step[t] + 1]

\* what an action of this harness leaves alone besides the nodes, the tails
\* and the callers' locals
nestRest == <<config, counter, iter, tmp, locked, delay, tested, bypass, hbVars,
              tail, ticket, nextTicket, served, rel_tail, rel_next, rel_nlocked,
              locked_log, next_log, barrierVars, counterVars, plan>>

\* acquire() or release() returns
Finish(t) ==
    /\ step' = [step EXCEPT ![t] = @ + 1]
    /\ pc' = [pc EXCEPT ![t] = IF step[t] + 1 = Len(plan[t]) THEN "done" ELSE "idle"]

\* acquire(): lock(threadLocalNode): myNode.next.store(nullptr);
\* myNode.locked.store(true)
AcquireInit(t) ==
    /\ pc[t] = "idle"
    /\ NextOp(t)[1] = "acquire"
    /\ node_next' = [node_next EXCEPT ![t] = NULL]
    /\ node_locked' = [node_locked EXCEPT ![t] = TRUE]
    /\ pc' = [pc EXCEPT ![t] = "xchg"]
    /\ UNCHANGED <<nestRest, tailOf, step, predecessor, next>>

\* predecessor = tail.exchange(&myNode, acq_rel); if (predecessor != nullptr) ...
AcquireExchange(t) ==
    /\ pc[t] = "xchg"
    /\ predecessor' = [predecessor EXCEPT ![t] = tailOf[NextOp(t)[2]]]
    /\ tailOf' = [tailOf EXCEPT ![NextOp(t)[2]] = t]
    /\ IF tailOf[NextOp(t)[2]] = NULL
         THEN Finish(t)
         ELSE /\ pc' = [pc EXCEPT ![t] = "link"]
              /\ step' = step
    /\ UNCHANGED <<nestRest, node_next, node_locked, next>>

\* predecessor->next.store(&myNode, release)
AcquireLink(t) ==
    /\ pc[t] = "link"
    /\ node_next' = [node_next EXCEPT ![predecessor[t]] = t]
    /\ pc' = [pc EXCEPT ![t] = "spin"]
    /\ UNCHANGED <<nestRest, tailOf, step, node_locked, predecessor, next>>

\* while (myNode.locked.load(acquire)) yield();   then lock() returns
AcquireSpin(t) ==
    /\ pc[t] = "spin"
    /\ IF node_locked[t]
         THEN UNCHANGED <<pc, step, predecessor>>
         ELSE /\ predecessor' = [predecessor EXCEPT ![t] = NULL]
              /\ Finish(t)
    /\ UNCHANGED <<nestRest, tailOf, node_next, node_locked, next>>

\* release(): unlock(threadLocalNode): next = myNode.next.load(acquire);
\* if (next == nullptr) ...
ReleaseLoad(t) ==
    /\ pc[t] = "idle"
    /\ NextOp(t)[1] = "release"
    /\ next' = [next EXCEPT ![t] = node_next[t]]
    /\ pc' = [pc EXCEPT ![t] = IF node_next[t] = NULL THEN "cas" ELSE "handoff"]
    /\ UNCHANGED <<nestRest, tailOf, step, node_next, node_locked, predecessor>>

\* if (tail.compare_exchange_strong(expected = &myNode, nullptr, release))
\*     return;
ReleaseCAS(t) ==
    /\ pc[t] = "cas"
    /\ IF tailOf[NextOp(t)[2]] = t
         THEN /\ tailOf' = [tailOf EXCEPT ![NextOp(t)[2]] = NULL]
              /\ Finish(t)
         ELSE /\ pc' = [pc EXCEPT ![t] = "wait_next"]
              /\ UNCHANGED <<tailOf, step>>
    /\ UNCHANGED <<nestRest, node_next, node_locked, predecessor, next>>

\* do { yield(); next = myNode.next.load(acquire); } while (next == nullptr);
ReleaseWait(t) ==
    /\ pc[t] = "wait_next"
    /\ next' = [next EXCEPT ![t] = node_next[t]]
    /\ pc' = [pc EXCEPT ![t] = IF node_next[t] = NULL THEN "wait_next" ELSE "handoff"]
    /\ UNCHANGED <<nestRest, tailOf, step, node_next, node_locked, predecessor>>

\* next->locked.store(false, release); unlock() returns
ReleaseHandoff(t) ==
    /\ pc[t] = "handoff"
    /\ node_locked' = [node_locked EXCEPT ![next[t]] = FALSE]
    /\ next' = [next EXCEPT ![t] = NULL]
    /\ Finish(t)
    /\ UNCHANGED <<nestRest, tailOf, node_next, predecessor>>

NestNext ==
    \E t \in Nesters :
        \/ AcquireInit(t)
        \/ AcquireExchange(t)
        \/ AcquireLink(t)
        \/ AcquireSpin(t)
        \/ ReleaseLoad(t)
        \/ ReleaseCAS(t)
        \/ ReleaseWait(t)
        \/ ReleaseHandoff(t)

SpecNest == NestInit /\ [][NestNext]_vars

\* The callers are operating-system threads: each one that can take a step
\* that changes the state eventually takes one.
FairBarrier ==
    /\ BarrierInit
    /\ [][ExactNext]_vars
    /\ WF_vars(Construct(NumParties))
    /\ \A p \in Parties : WF_vars(PartyStep(p))

(***************************************************************************)
(* Properties of the locks.                                                *)
(***************************************************************************)
\* t is between the return of lock()/acquire() and the start of its
\* unlock()/release()
InCS(t) == pc[t] \in {"cs", "incr", "release"}

\* t has been granted the MCS lock and its unlock() has not returned
Holding(t) == pc[t] \in {"cs", "incr", "release", "cas", "wait_next", "handoff"}

AllDone == \A t \in Workers : pc[t] = "done"

\* C1: with MCSLock, at most one thread is between the return of lock() and
\* the start of its unlock(), in every reachable state.
MCSMutualExclusion ==
    lockType = "MCS" => Cardinality({t \in Threads : InCS(t)}) <= 1

\* C1 witness: a thread is in the critical section of the MCS lock while two
\* others have queued behind it and spin.
MCSMutualExclusionWitness ==
    /\ lockType = "MCS"
    /\ \E t, u, v \in Threads :
          /\ u # v
          /\ InCS(t)
          /\ pc[u] = "spin"
          /\ pc[v] = "spin"

\* C2: with TASLock, TTASLock and their backoff variants, at most one thread is
\* between an exchange that read false and its own release store.
FlagMutualExclusion ==
    lockType \in FlagTypes => Cardinality({t \in Threads : InCS(t)}) <= 1

\* C2 witness: a TTAS waiter has seen the flag false and stands before its
\* exchange while another thread, which saw the same, is already inside.
FlagMutualExclusionWitness ==
    /\ lockType \in {"TTAS", "TTASB"}
    /\ \E t, u \in Threads :
          /\ InCS(t)
          /\ pc[u] = "tas"

\* C3: when all workers have finished, the plain counter, incremented by a
\* separate read and write inside the lock, is workers * iterations.
CounterOracle == AllDone => counter = workers * iterations

\* C3 witness: three workers have all finished two rounds each.
CounterOracleWitness ==
    /\ AllDone
    /\ workers >= 3
    /\ iterations >= 2
    /\ counter = workers * iterations

\* C4: the k-th grant of the MCS lock goes to the thread whose tail exchange
\* was the k-th: the holder's arrival index is the number of earlier grants.
MCSFifo ==
    lockType = "MCS" => \A t \in Threads : Holding(t) => ticket[t] + 1 = served

\* C4 witness: a thread that had to wait has been granted the lock while two
\* later arrivals are queued behind it.
MCSFifoWitness ==
    /\ lockType = "MCS"
    /\ \E t, u, v \in Threads :
          /\ pc[t] = "cs"
          /\ ~node_locked[t]
          /\ pc[u] = "spin"
          /\ pc[v] \in {"link", "spin"}
          /\ ticket[t] < ticket[u]
          /\ ticket[u] < ticket[v]

\* C10: MCS workers that reuse their node in every round keep mutual
\* exclusion, and under fair scheduling all of them finish all their rounds:
\* none spins forever on a stale link.
MCSNodeReuse ==
    /\ [](lockType = "MCS" => Cardinality({t \in Threads : InCS(t)}) <= 1)
    /\ <>(lockType = "MCS" => AllDone)

\* C10 witness: a worker in a later round holds the lock through its reused
\* node while another worker, also in a later round, is queued behind it.
MCSNodeReuseWitness ==
    /\ lockType = "MCS"
    /\ \E t, u \in Threads :
          /\ iter[t] >= 1
          /\ iter[u] >= 1
          /\ InCS(t)
          /\ pc[u] = "spin"
          /\ node_next[t] = u

\* t is not inside a lock()/unlock() pair: its last unlock() has returned (or
\* none was called yet), so its node may be destroyed or re-initialised
Released(t) == pc[t] \in {"idle", "done"}

\* t is inside a lock()/unlock() pair and its node is initialised
Live(t) == pc[t] \in {"xchg", "link", "spin", "cs", "incr", "release", "cas",
                      "wait_next", "handoff"}

\* some thread other than t holds a reference to t's node that it will still
\* use: tail, a pending store into t's next, a pending store into t's locked,
\* or a link in a live node
Referenced(t) ==
    \/ tail = t
    \/ \E u \in Threads \ {t} :
          \/ pc[u] = "link" /\ predecessor[u] = t
          \/ pc[u] = "handoff" /\ next[u] = t
          \/ Live(u) /\ node_next[u] = t

\* C11: once unlock(node) has returned, no other thread reads or writes that
\* node again: nothing that is still in use references it.
MCSNodeLifetime ==
    lockType = "MCS" => \A t \in Workers : Released(t) => ~Referenced(t)

\* C11 witness: unlock() of t has returned after handing the lock to its
\* successor u; t's dead node still names u, and u is in the critical section.
MCSNodeLifetimeWitness ==
    /\ lockType = "MCS"
    /\ \E t, u \in Threads :
          /\ pc[t] = "idle"
          /\ iter[t] >= 1
          /\ node_next[t] = u
          /\ ~node_locked[u]
          /\ InCS(u)

\* u is the thread whose tail exchange came right after that of t, returned
\* t's node, and which has not been granted the lock yet
SuccessorOf(t, u) ==
    /\ u # t
    /\ pc[u] \in {"link", "spin"}
    /\ predecessor[u] = t
    /\ ticket[u] = ticket[t] + 1
    /\ node_locked[u]

\* t's unlock() found next empty and its compare-exchange of tail failed
InRaceWindow(t) == pc[t] = "wait_next"

\* t is in lock() behind a predecessor and has not been granted the lock
Waiting(t) == pc[t] \in {"link", "spin"}

\* a thread stops waiting in lock() only by entering the critical section
GrantedOnly(t) == (Waiting(t) /\ ~Waiting(t)') => pc'[t] = "cs"

\* C15: an unlock() whose compare-exchange failed has a successor that is
\* still to be granted the lock, does not return before it has seen that
\* successor in next, and then unlocks exactly that successor; and a thread
\* whose tail exchange returned a predecessor is eventually granted the lock:
\* waiting ends only by entering the critical section, and it always ends.
MCSRaceWindow ==
    /\ [](lockType = "MCS" =>
            \A t \in Threads :
                /\ InRaceWindow(t) => \E u \in Threads : SuccessorOf(t, u)
                /\ pc[t] = "handoff" =>
                      /\ next[t] # NULL
                      /\ node_next[t] = next[t]
                      /\ pc[next[t]] = "spin"
                      /\ SuccessorOf(t, next[t]))
    /\ [][lockType = "MCS" => \A u \in Threads : GrantedOnly(u)]_vars
    /\ <>[](lockType = "MCS" =>
              \A u \in Threads : ~Waiting(u) /\ ~InRaceWindow(u))

\* C15 witness: t's compare-exchange of tail has failed and it waits, its
\* next still empty, for the thread that exchanged tail but has not linked.
MCSRaceWindowWitness ==
    /\ lockType = "MCS"
    /\ \E t, u \in Threads :
          /\ InRaceWindow(t)
          /\ node_next[t] = NULL
          /\ pc[u] = "link"
          /\ predecessor[u] = t

\* t has performed its tail exchange in lock() and its matching unlock() has
\* not completed (neither by a successful compare-exchange nor by a handoff)
Queued(t) == pc[t] \in {"link", "spin", "cs", "incr", "release", "cas",
                        "wait_next", "handoff"}

\* C16: tail is empty exactly when no thread is between its tail exchange
\* and the completion of its unlock(); otherwise tail references the node of
\* the thread whose tail exchange was the most recent.
MCSTailInvariant ==
    lockType = "MCS" =>
        /\ tail = NULL <=> ~\E t \in Threads : Queued(t)
        /\ tail # NULL =>
              /\ Queued(tail)
              /\ \A t \in Threads : Queued(t) => ticket[t] <= ticket[tail]

\* C16 witness: the holder has two threads queued behind it; tail references
\* the one that exchanged last and has not linked yet.
MCSTailInvariantWitness ==
    /\ lockType = "MCS"
    /\ \E t, u, v \in Threads :
          /\ InCS(t)
          /\ pc[u] = "spin"
          /\ pc[v] = "link"
          /\ predecessor[v] = u
          /\ tail = v

RECURSIVE ChainFrom(_, _)
\* the nodes visited by following next from node n, at most k of them
ChainFrom(n, k) ==
    IF n = NULL \/ k = 0 THEN <<>> ELSE <<n>> \o ChainFrom(node_next[n], k - 1)

\* the queued thread whose tail exchange was the earliest: the holder of the
\* lock, or the thread just handed it
QueueHead == CHOOSE h \in Threads :
            Queued(h) /\ \A t \in Threads : Queued(t) => ticket[h] <= ticket[t]

\* the chain that starts at the holder's node
Chain == ChainFrom(QueueHead, NumThreads + 1)

Last(c) == c[Len(c)]

\* C17: following next from the holder's node visits queued threads only, in
\* the order of their tail exchanges, each once and without a cycle; the
\* chain stops short of tail only at a node whose successor has exchanged
\* tail and not yet linked; when no link is pending it ends at the node tail
\* references and holds exactly the queued threads.
MCSChainInvariant ==
    (lockType = "MCS" /\ \E t \in Threads : Queued(t)) =>
        /\ \A t \in Threads : Holding(t) => t = QueueHead
        /\ Len(Chain) <= NumThreads
        /\ \A i \in 1..Len(Chain) : Queued(Chain[i])
        /\ \A i \in 2..Len(Chain) :
              /\ ticket[Chain[i]] = ticket[Chain[i - 1]] + 1
              /\ pc[Chain[i]] = "spin"
        /\ Last(Chain) # tail =>
              \E u \in Threads : pc[u] = "link" /\ predecessor[u] = Last(Chain)
        /\ (~\E u \in Threads : pc[u] = "link") =>
              /\ Last(Chain) = tail
              /\ {Chain[i] : i \in 1..Len(Chain)} = {t \in Threads : Queued(t)}

\* C17 witness: the chain from the holder runs through two linked waiters
\* and stops there, a fourth thread having exchanged tail and not yet linked.
MCSChainInvariantWitness ==
    /\ lockType = "MCS"
    /\ \E t \in Threads : Queued(t)
    /\ Len(Chain) = 3
    /\ InCS(QueueHead)
    /\ \E u \in Threads : pc[u] = "link" /\ predecessor[u] = Last(Chain) /\ tail = u

\* C18: a node that is about to be published by the tail exchange has next
\* empty and locked true, no other thread having stored into it; and a
\* queued thread finds locked false on its node only after the unlock() of
\* its predecessor has stored into it during this acquisition.
MCSInitBeforePublication ==
    lockType = "MCS" =>
        \A t \in Threads :
            /\ pc[t] = "xchg" =>
                  /\ node_next[t] = NULL
                  /\ node_locked[t]
                  /\ next_log[t] = <<>>
                  /\ locked_log[t] = <<>>
            /\ (Queued(t) /\ ~node_locked[t]) => locked_log[t] = <<ticket[t] - 1>>

\* C18 witness: a thread in a later round, whose node was unlocked in the
\* round before, stands before its tail exchange with the node initialised
\* again, behind a thread that is queued.
MCSInitBeforePublicationWitness ==
    /\ lockType = "MCS"
    /\ \E t, u \in Threads :
          /\ pc[t] = "xchg"
          /\ iter[t] >= 1
          /\ node_locked[t]
          /\ tail = u
          /\ ~node_locked[u]

\* the step leaves the fields of every node other than t's as they are and
\* stores into no node's locked flag
WritesNoOtherNode(t) ==
    \A u \in Threads \ {t} :
        /\ node_next'[u] = node_next[u]
        /\ node_locked'[u] = node_locked[u]
        /\ next_log'[u] = next_log[u]
        /\ locked_log'[u] = locked_log[u]

\* the tail exchange of t on a free lock: lock() returns at once, no spinning,
\* no node written
FreeExchange(t) ==
    (pc[t] = "xchg" /\ pc'[t] # "xchg" /\ tail = NULL) =>
        /\ pc'[t] = "cs"
        /\ tail' = t
        /\ UNCHANGED <<node_next, node_locked, next_log, locked_log>>

\* the compare-exchange of t's unlock() when nobody has exchanged tail since
\* t did: it succeeds, unlock() returns, tail is empty again, no locked flag
\* has been stored into
LoneRelease(t) ==
    (pc[t] = "cas" /\ pc'[t] # "cas" /\ tail = t) =>
        /\ pc'[t] \in {"idle", "done"}
        /\ tail' = NULL
        /\ Len(locked_log'[t]) <= Len(locked_log[t])
        /\ WritesNoOtherNode(t)

\* C19: on a free lock, lock() returns right after the tail exchange without
\* spinning and without writing another node; while no other thread has
\* exchanged tail, unlock() finds next empty and goes to the compare-exchange,
\* which succeeds, leaves tail empty and stores into no locked flag.
MCSUncontended ==
    /\ [](lockType = "MCS" =>
            \A t \in Threads :
                (Queued(t) /\ tail = t /\ ticket[t] + 1 = served) =>
                    /\ node_next[t] = NULL
                    /\ pc[t] \in {"cs", "incr", "release", "cas"})
    /\ [][lockType = "MCS" => \A t \in Threads : FreeExchange(t) /\ LoneRelease(t)]_vars

\* C19 witness: a thread that found the lock free, and was not handed it by
\* anyone, stands before the compare-exchange of its unlock() with tail
\* still referencing its node, other workers being between rounds.
MCSUncontendedWitness ==
    /\ lockType = "MCS"
    /\ workers >= 2
    /\ \E t \in Threads :
          /\ pc[t] = "cas"
          /\ tail = t
          /\ node_locked[t]
          /\ locked_log[t] = <<>>
          /\ iter[t] >= 1

\* a step in which t leaves its spin loop does so on its own flag being
\* false, and no step of a spinning thread stores into anything shared
SpinsPrivately(t) ==
    (pc[t] = "spin" /\ pc'[t] # "spin") =>
        /\ ~node_locked[t]
        /\ UNCHANGED <<tail, node_next, node_locked, next_log, locked_log,
                       counter, locked>>

\* C20: in one acquisition, the only store another thread makes into a
\* node's locked flag is one store by the direct predecessor, and the only
\* store another thread makes into its next is one store by the direct
\* successor; a thread leaves its spin loop on its own flag alone.
MCSPrivateSpinning ==
    /\ [](lockType = "MCS" =>
            \A t \in Threads :
                /\ Len(locked_log[t]) <= 1
                /\ Len(next_log[t]) <= 1
                /\ Queued(t) =>
                      /\ locked_log[t] \in {<<>>, <<ticket[t] - 1>>}
                      /\ next_log[t] \in {<<>>, <<ticket[t] + 1>>})
    /\ [][lockType = "MCS" => \A t \in Threads : SpinsPrivately(t)]_vars

\* C20 witness: a waiter whose flag was cleared by its predecessor, which
\* has returned, and whose next was set by its successor, while a third
\* thread, queued behind that successor, has touched neither field.
MCSPrivateSpinningWitness ==
    /\ lockType = "MCS"
    /\ \E t, u, v \in Threads :
          /\ pc[t] = "spin"
          /\ locked_log[t] = <<ticket[t] - 1>>
          /\ next_log[t] = <<ticket[u]>>
          /\ pc[u] = "spin"
          /\ node_next[u] = v
          /\ pc[v] = "spin"

\* the nodes whose locked flag goes from true to false in the step
Unlocked == {u \in Threads : node_locked[u] /\ ~node_locked'[u]}

\* t is still in the spin loop of lock() although its flag is already false
Granted(t) == pc[t] = "spin" /\ ~node_locked[t]

\* a step releases at most one waiter, and only as the handoff store of an
\* unlock() to the node its caller read from next, the direct successor
OneHandoff ==
    /\ Cardinality(Unlocked) <= 1
    /\ \A u \in Unlocked :
          \E t \in Threads :
              /\ pc[t] = "handoff"
              /\ next[t] = u
              /\ SuccessorOf(t, u)
              /\ pc'[t] \in {"idle", "done"}

\* C21: each unlock() releases at most one waiter, its direct successor, by
\* the store of false into that successor's locked flag; at most one thread
\* that still spins in lock() has its flag false, and none has while another
\* thread holds the lock.
MCSSingleHandoff ==
    /\ [][lockType = "MCS" => OneHandoff]_vars
    /\ [](lockType = "MCS" =>
            /\ Cardinality({t \in Threads : Granted(t)}) <= 1
            /\ \A t, u \in Threads : Granted(t) => ~Holding(u))

\* C21 witness: the holder has handed the lock to its successor and returned;
\* the successor still spins, its flag false, with two more waiters queued
\* behind it whose flags are true.
MCSSingleHandoffWitness ==
    /\ lockType = "MCS"
    /\ \E t, u, v \in Threads :
          /\ Granted(t)
          /\ locked_log[t] = <<ticket[t] - 1>>
          /\ u # v
          /\ pc[u] = "spin" /\ node_locked[u]
          /\ pc[v] = "spin" /\ node_locked[v]

\* t is inside unlock()
InUnlock(t) == pc[t] \in {"cas", "wait_next", "handoff"}

\* t is inside lock() after its tail exchange, or inside unlock(), or holds
\* the lock and is still to call unlock()
Pending(t) == Waiting(t) \/ InCS(t) \/ InUnlock(t)

\* t leaves unlock() only by returning from it, to the next round of its
\* loop or to the end of its thread
ReturnsOnly(t) == (InUnlock(t) /\ ~InUnlock(t)') => pc'[t] \in {"idle", "done"}

\* C22: with threads that keep taking steps and holders that go on to call
\* unlock(), every thread that has exchanged tail in lock() returns from
\* lock() and every unlock() returns: a thread stops waiting only by being
\* granted the lock, leaves unlock() only by returning, and from some point
\* on no call is pending, every worker having finished all its rounds.
MCSStarvationFreedom ==
    /\ [][lockType = "MCS" =>
            \A t \in Threads : GrantedOnly(t) /\ ReturnsOnly(t)]_vars
    /\ <>[](lockType = "MCS" =>
              /\ AllDone
              /\ served = workers * iterations
              /\ \A t \in Threads : ~Pending(t))

\* C22 witness: a thread waits in lock() with a holder and two waiters ahead
\* of it in the queue, and the holder, whose compare-exchange has failed, is
\* inside unlock().
MCSStarvationFreedomWitness ==
    /\ lockType = "MCS"
    /\ \E t, u \in Threads :
          /\ pc[t] = "spin"
          /\ ticket[t] = served + 2
          /\ InUnlock(u)
          /\ ticket[u] + 1 = served

\* the two locks that test the flag before they exchange it
TestingTypes == {"TTAS", "TTASB"}

\* t is inside lock()/acquire() of a flag lock
Acquiring(t) == pc[t] \in {"test", "tas"}

\* the step is an exchange by t: it ends the standing of t's last load
Exchanges(t) == tested[t] /\ ~tested'[t]

\* what a step may do to a thread inside TTAS lock(): it comes to the
\* exchange only from the test loop by a load that read false, which writes
\* nothing; a step of a thread in the test loop never writes the flag; and an
\* exchange that read true leaves the flag set and goes back to the test loop
TestBeforeSet(t) ==
    /\ (pc[t] # "tas" /\ pc'[t] = "tas") =>
          /\ pc[t] = "test"
          /\ ~locked
          /\ UNCHANGED <<locked, rel_locked>>
    /\ (pc[t] = "test" /\ pc'[t] # "test") =>
          /\ pc'[t] = "tas"
          /\ tested'[t]
    /\ (pc[t] = "test" /\ tested'[t] # tested[t]) => UNCHANGED <<locked, rel_locked>>
    /\ Exchanges(t) =>
          /\ pc[t] = "tas"
          /\ locked'
          /\ pc'[t] = IF locked THEN "test" ELSE "cs"

\* every thread inside lock() tests before it sets, and the flag goes from
\* false to true only by an exchange
SetByExchange ==
    /\ \A t \in Threads : TestBeforeSet(t)
    /\ (~locked /\ locked') => \E t \in Threads : Exchanges(t)

\* C23: a thread in TTASLock::lock (and in TTASLockWithBackoff::acquire)
\* stands before the exchange only when its last access to the flag was a
\* load that read false; while its loads read true it writes nothing; after
\* an exchange that read true it is back in the read-only test loop; and the
\* flag is set only by such an exchange.
TTASTestBeforeSet ==
    /\ [](lockType \in TestingTypes =>
            \A t \in Threads :
                /\ pc[t] = "tas" => tested[t]
                /\ tested[t] => pc[t] = "tas")
    /\ [][(lockType \in TestingTypes) => SetByExchange]_vars

\* C23 witness: while a thread holds the TTAS lock, one waiter is in the
\* read-only test loop and another, whose load read false before the holder's
\* exchange, stands before an exchange that will read true.
TTASTestBeforeSetWitness ==
    /\ lockType = "TTAS"
    /\ \E t, u, v \in Threads :
          /\ pc[t] = "test" /\ ~tested[t]
          /\ pc[u] = "tas" /\ tested[u]
          /\ InCS(v)
          /\ locked

\* the two flag locks of lock.h
PlainFlagTypes == {"TAS", "TTAS"}

\* the flag changes only by an exchange that read false, whose caller then
\* holds the lock, and by the release store of the holder
FlagSteps ==
    /\ (~locked /\ locked') =>
          \E t \in Threads : Acquiring(t) /\ pc'[t] = "cs"
    /\ (locked /\ ~locked') =>
          \E t \in Threads : pc[t] = "release" /\ pc'[t] \in {"idle", "done"}

\* C24: with TASLock and TTASLock used correctly, the flag is true exactly
\* when some thread is between its exchange that read false and its release
\* store; an exchange that reads true leaves it true, and only the release
\* of the holder makes it false.
FlagStateInvariant ==
    /\ []((lockType \in PlainFlagTypes) =>
            (locked <=> \E t \in Threads : InCS(t)))
    /\ [][(lockType \in PlainFlagTypes) => FlagSteps]_vars

\* C24 witness: in a later round, a thread holds the TAS lock, the flag
\* true, while two others are at their exchange, which will read true.
FlagStateInvariantWitness ==
    /\ lockType = "TAS"
    /\ locked
    /\ \E t, u, v \in Threads :
          /\ u # v
          /\ InCS(t)
          /\ iter[t] >= 1
          /\ pc[u] = "tas"
          /\ pc[v] = "tas"

BackoffTypes == {"TASB", "TTASB"}

\* what a step may do to the delay of a thread t: a call of acquire() starts
\* it at INITIAL_DELAY; inside the call it changes only in a step of t that
\* is an exchange that read true, which is followed by the sleep, and then to
\* twice its value; in the TTAS variant every such exchange grows it up to the
\* ceiling and leads back to the test loop
BackoffStep(t) ==
    /\ (~Acquiring(t) /\ Acquiring(t)') => delay'[t] = INITIAL_DELAY
    /\ (Acquiring(t) /\ Acquiring(t)' /\ delay'[t] # delay[t]) =>
          /\ pc[t] = "tas"
          /\ locked /\ locked'
          /\ delay[t] < MAX_DELAY
          /\ delay'[t] = 2 * delay[t]
          /\ pc'[t] = IF lockType = "TTASB" THEN "test" ELSE "tas"
    /\ (lockType = "TTASB" /\ Exchanges(t) /\ locked) =>
          /\ delay'[t] = Min(2 * delay[t], MAX_DELAY)
          /\ pc'[t] = "test"

\* C26: in acquire() of TASLockWithBackoff and TTASLockWithBackoff the delay
\* starts at INITIAL_DELAY in every call, changes only with the sleep after
\* an exchange that read true, doubles with each such failure and is never
\* above MAX_DELAY, so no sleep is longer than MAX_DELAY; after the sleep the
\* TTAS variant is back in the test loop.
LockBackoffDelay ==
    /\ []((lockType \in BackoffTypes) =>
            \A t \in Threads :
                Acquiring(t) => (INITIAL_DELAY <= delay[t] /\ delay[t] <= MAX_DELAY))
    /\ [][(lockType \in BackoffTypes) => \A t \in Threads : BackoffStep(t)]_vars

\* C26 witness: in a later call of acquire(), a TTASLockWithBackoff thread
\* whose delay has reached MAX_DELAY is back in the test loop after a sleep,
\* while the other worker holds the lock.
LockBackoffDelayWitness ==
    /\ lockType = "TTASB"
    /\ \E t, u \in Threads :
          /\ pc[t] = "test"
          /\ iter[t] >= 1
          /\ delay[t] = MAX_DELAY
          /\ InCS(u)

\* C13: every acquisition happens-after the release of the holder before it:
\* for each lock type, all the stores made to the counter inside earlier
\* critical sections happen-before the steps of the thread that is inside now.
HappensAfterRelease ==
    \A t \in Threads : InCS(t) => view[t] = Len(written)

\* C13 witness: a thread that has stored nothing itself yet is inside the
\* critical section, handed the MCS lock by its predecessor, and the stores
\* of two earlier critical sections are visible to it.
HappensAfterReleaseWitness ==
    /\ lockType = "MCS"
    /\ \E t \in Threads :
          /\ pc[t] = "cs"
          /\ iter[t] = 0
          /\ ~node_locked[t]
          /\ Len(written) >= 2
          /\ view[t] = Len(written)

\* t has returned from lock()/acquire() and has not finished counter++
InBody(t) == pc[t] \in {"cs", "incr"}

\* C12: also when callers release a lock they do not hold, or release twice,
\* no two threads are inside the critical section of the lock at once.
MisuseMutualExclusion == Cardinality({t \in Threads : InBody(t)}) <= 1

(***************************************************************************)
(* Properties of the counters.                                             *)
(***************************************************************************)
RECURSIVE CallsUpTo(_)
\* increment() calls completed by the test threads 1..n
CallsUpTo(n) == IF n = 0 THEN 0 ELSE cj[n] + CallsUpTo(n - 1)

\* increment() calls completed so far
Completed == CallsUpTo(NumCounterThreads)

AllCounted == cthreads > 0 /\ \A t \in 1..cthreads : cpc[t] = "done"

\* C14: for each counter variant every increment() call raises the value by
\* exactly 1 (the value is the number of completed calls, plus the call that
\* has stored under the mutex and not yet unlocked), and when T threads have
\* each completed K calls the value is T * K.
CounterVariants ==
    /\ value = Completed + Cardinality({t \in CounterThreads : cpc[t] = "munlock"})
    /\ AllCounted => value = cthreads * cops

\* C14 witness: the threads of a CompareSwapCounter test have all finished,
\* one of them after a failed compare-exchange that it retried.
CounterVariantsWitness ==
    /\ kind = "CompareSwap"
    /\ AllCounted
    /\ cthreads >= 2
    /\ cops >= 2
    /\ \E t \in CounterThreads : cdelay[t] >= 2
    /\ value = cthreads * cops

(***************************************************************************)
(* Properties of the barrier.                                              *)
(***************************************************************************)
\* wait() calls of p that have performed their decrement of count
Begun(p) == j[p] + (IF bpc[p] \in {"reset", "flip", "poll"} THEN 1 ELSE 0)

\* the barrier was constructed for exactly the caller threads
Exact == constructed /\ num_threads = NumParties

\* C5: with exactly N callers, a thread has returned from its k-th wait() only
\* if every caller has performed the decrement of its k-th wait().
PhaseSeparation ==
    Exact => \A p, q \in Parties : j[p] <= Begun(q)

\* C5 witness: a thread has returned from the wait() of a later phase while
\* another one, which has arrived in that phase, has not yet returned from it.
PhaseSeparationWitness ==
    /\ Exact
    /\ \E p, q \in Parties :
          /\ j[p] = 2
          /\ bpc[q] = "poll"
          /\ Begun(q) = 2

\* C6: with exactly N callers, whenever a phase completes (the last arriver
\* is about to publish the flipped sense) every caller has arrived exactly
\* once in that phase and count is N again.
Reusable ==
    Exact =>
        \A p \in Parties :
            bpc[p] = "flip" =>
                /\ count = num_threads
                /\ j[p] = flips
                /\ \A q \in Parties : Begun(q) = flips + 1

\* C6 witness: the last phase of the run is about to complete on the barrier
\* that has served all the phases before it.
ReusableWitness ==
    /\ Exact
    /\ flips = MaxPhases - 1
    /\ \E p \in Parties : bpc[p] = "flip"

\* C7: with exactly N callers that call wait() once per phase, under fair
\* scheduling every caller returns from the wait() of every phase.
NoMissedWakeup == <>(\A p \in Parties : bpc[p] = "done" /\ j[p] = MaxPhases)

\* C7 witness: a waiter that polled in vain and has not yet noticed the flip
\* of its phase, while another caller has already arrived in the next phase.
NoMissedWakeupWitness ==
    /\ Exact
    /\ \E p, q \in Parties :
          /\ bpc[p] = "poll"
          /\ bdelay[p] > 1
          /\ sense # my_sense_local[p]
          /\ Begun(q) = Begun(p) + 1

\* C8: on a barrier for N threads with at most N callers, as long as fewer
\* than N threads have called wait() in phase k, the sense flag has been
\* flipped fewer than k times and no thread has returned from its k-th wait().
StallOnMissing ==
    (constructed /\ num_threads >= NumParties) =>
        \A k \in 1..MaxPhases :
            Cardinality({p \in Parties : Begun(p) >= k}) < num_threads =>
                /\ flips < k
                /\ \A p \in Parties : j[p] < k

\* C8 witness: one caller has stopped after the first phase and all the
\* others poll in the second phase, their backoff exhausted, the sense not
\* flipped for it.
StallOnMissingWitness ==
    /\ Exact
    /\ flips = 1
    /\ \E q \in Parties :
          /\ bpc[q] = "done"
          /\ j[q] = 1
          /\ \A p \in Parties \ {q} :
                /\ bpc[p] = "poll"
                /\ Begun(p) = 2
                /\ bdelay[p] = PollCap

\* C9: a constructed barrier has a positive participant count (a count
\* N <= 0 is rejected by the constructor).
CtorRejectsNonPositive == constructed => num_threads >= 1

\* the delays a waiter can be about to sleep: 1, 2, 4, ..., 512, then 1000
SleptDelays == {2 ^ k : k \in 0..9} \cup {BARRIER_DELAY_CAP}

\* what a step may do to the delay of caller p: a wait() that has to poll
\* starts it at 1; in the poll loop it changes only by a sleep after a poll
\* that found the sense unflipped, to min(2 * delay, 1000), and such a step
\* changes nothing else; a poll that finds the sense flipped returns,
\* whatever the delay
PollDelayStep(p) ==
    /\ (bpc[p] # "poll" /\ bpc'[p] = "poll") => bdelay'[p] = 1
    /\ (bpc[p] = "poll" /\ bdelay'[p] # bdelay[p]) =>
          IF sense = my_sense_local[p]
            THEN /\ bdelay'[p] = Min(2 * bdelay[p], 1000)
                 /\ bpc'[p] = "poll"
                 /\ UNCHANGED <<count, sense, flips, my_sense, my_sense_local, j>>
            ELSE /\ bpc'[p] \in {"idle", "done"}
                 /\ j'[p] = j[p] + 1
    /\ (bpc[p] = "poll" /\ bpc'[p] # "poll") => sense # my_sense_local[p]

\* C27: in a wait() that has to poll, the delay starts at 1, becomes
\* min(2 * delay, 1000) after every sleep, so that the delays slept are 1, 2,
\* 4, ..., 512, 1000, 1000, ... and none is above 1000; the delay is the
\* caller's own and a sleep changes nothing else; a waiter leaves the poll
\* loop exactly on a poll that finds the sense flipped, whatever its delay.
BarrierBackoffDelay ==
    /\ [](\A p \in Parties : bpc[p] = "poll" => bdelay[p] \in SleptDelays)
    /\ [][\A p \in Parties : PollDelayStep(p)]_vars

\* C27 witness: a waiter whose delay has reached the cap of 1000 polls once
\* more after the last arriver has flipped the sense, while another waiter of
\* the same phase has slept only once.
BarrierBackoffDelayWitness ==
    /\ Exact
    /\ \E p, q \in Parties :
          /\ bpc[p] = "poll"
          /\ bdelay[p] = BARRIER_DELAY_CAP
          /\ sense # my_sense_local[p]
          /\ bpc[q] = "poll"
          /\ bdelay[q] = 2
          /\ j[p] = j[q]

\* the order of the last arriver's stores, as a step shows it: when the sense
\* flag changes, count holds N and stays; and a decrement finds a count
\* that is not 0
ResetThenRelease ==
    /\ sense' # sense => (count = num_threads /\ count' = count)
    /\ count' = count - 1 => count > 0

\* C28: the last arriver of a phase stores N into count before it stores the
\* negated sense: with exactly N callers, the sense flips only when count is
\* N again; while count is 0, no caller has seen the sense of the phase
\* flipped or returned from its wait(); and no decrement of the next phase
\* acts on a count of 0.
ResetBeforeRelease ==
    /\ [](Exact =>
            (count = 0 =>
                \A p \in Parties :
                    /\ j[p] = flips
                    /\ bpc[p] \in {"poll", "reset"}
                    /\ sense = my_sense_local[p]))
    /\ [][Exact => ResetThenRelease]_vars

\* C28 witness: in a later phase the last arriver has reset count and not yet
\* published the flipped sense: count is N while all the others poll a sense
\* that is still unflipped.
ResetBeforeReleaseWitness ==
    /\ Exact
    /\ flips >= 1
    /\ count = num_threads
    /\ \E p \in Parties :
          /\ bpc[p] = "flip"
          /\ \A q \in Parties \ {p} :
                bpc[q] = "poll" /\ sense = my_sense_local[q]

\* p's decrement returned 1 and p has not yet returned from that wait()
LastArriver(p) == bpc[p] \in {"reset", "flip"}

\* what a step may do in one phase: a caller becomes the last arriver only by
\* a decrement that finds 1, and a waiter only by one that finds more; count
\* is written only by a decrement and by the reset of the last arriver, the
\* sense only by the last arriver, which negates it and then returns; a
\* waiter's steps write neither
OneFlip(p) ==
    /\ (~LastArriver(p) /\ LastArriver(p)') =>
          (bpc[p] = "idle" /\ count = 1 /\ count' = 0)
    /\ (bpc[p] # "poll" /\ bpc'[p] = "poll") =>
          (bpc[p] = "idle" /\ count # 1 /\ count' = count - 1)
    /\ (LastArriver(p) /\ ~LastArriver(p)') =>
          /\ bpc[p] = "flip"
          /\ bpc'[p] \in {"idle", "done"}
          /\ sense' = ~sense
          /\ flips' = flips + 1
    /\ (bpc[p] = "poll" /\ (bpc'[p] # bpc[p] \/ bdelay'[p] # bdelay[p])) =>
          UNCHANGED <<sense, flips, count>>

\* the shared fields change only in a step of a caller that arrives or of
\* the last arriver
WrittenByArrivals ==
    /\ (sense' # sense \/ flips' # flips) =>
          \E p \in Parties : bpc[p] = "flip" /\ bpc'[p] # "flip"
    /\ count' # count =>
          \E p \in Parties :
              \/ bpc[p] = "idle" /\ bpc'[p] \in {"reset", "poll"}
              \/ bpc[p] = "reset" /\ bpc'[p] = "flip"

\* C29: with exactly N callers, each phase has one last arriver, the caller
\* whose decrement found 1; it alone writes the sense flag, once, negating
\* it, and returns without polling; the waiters write neither the flag nor
\* count; the stores to the flag so far are as many as the phases completed.
SingleFlip ==
    /\ [](Exact =>
            /\ Cardinality({p \in Parties : LastArriver(p)}) <= 1
            /\ sense = (flips % 2 = 0)
            /\ \A p \in Parties :
                  /\ j[p] <= flips
                  /\ flips <= Begun(p)
                  /\ LastArriver(p) => (j[p] = flips /\ sense = my_sense_local[p]))
    /\ [][Exact => (WrittenByArrivals /\ \A p \in Parties : OneFlip(p))]_vars

\* C29 witness: the sense has been flipped twice, once for each completed
\* phase; the caller that flipped it last has returned and arrived again as
\* a waiter of the third phase while the others have yet to notice the flip.
SingleFlipWitness ==
    /\ Exact
    /\ flips = 2
    /\ sense
    /\ \E p \in Parties :
          /\ bpc[p] = "poll"
          /\ j[p] = 2
          /\ \A q \in Parties \ {p} :
                /\ bpc[q] = "poll"
                /\ j[q] = 1
                /\ sense # my_sense_local[q]

\* the decrements of count performed so far by the callers 1..n
RECURSIVE Decrements(_)
Decrements(n) == IF n = 0 THEN 0 ELSE Begun(n) + Decrements(n - 1)

\* the callers that have arrived in the current phase, a phase being over
\* with the arrival of its last caller
Arrived == Decrements(NumParties) % num_threads

\* the last arriver has taken count to 0 and not yet stored N into it
ResetPending == \E p \in Parties : bpc[p] = "reset"

\* C30: with exactly N callers, count is between 0 and N; it is N minus the
\* number of callers that have arrived in the current phase, except between
\* the decrement of the last arriver and its reset, when it is 0; it is
\* never negative.
CountInvariant ==
    Exact =>
        /\ 0 <= count
        /\ count <= num_threads
        /\ IF ResetPending
             THEN count = 0
             ELSE count = num_threads - Arrived

\* C30 witness: in a later phase, all callers but one have arrived and poll,
\* and count is 1.
CountInvariantWitness ==
    /\ Exact
    /\ flips >= 1
    /\ count = 1
    /\ Arrived = num_threads - 1
    /\ \E p \in Parties :
          /\ bpc[p] = "idle"
          /\ \A q \in Parties \ {p} : bpc[q] = "poll" /\ j[q] = flips

\* p is inside wait(), past the read of its local sense
InWait(p) == bpc[p] \in {"reset", "flip", "poll"}

\* the initial local sense (true) negated k times
NegatedTimes(k) == (k % 2 = 0)

\* a step in which p returns from wait() flips p's local sense and leaves
\* the shared sense equal to it; p's local sense changes in no other step
FlipsOnReturn(p) ==
    /\ j'[p] # j[p] =>
          /\ j'[p] = j[p] + 1
          /\ InWait(p)
          /\ my_sense'[p] = ~my_sense[p]
          /\ sense' = my_sense'[p]
    /\ my_sense'[p] # my_sense[p] => j'[p] = j[p] + 1

\* C31: every wait() flips the caller's local sense exactly once, in the
\* branch of the last arriver and in that of a waiter: after k completed
\* waits the local sense is true negated k times, the copy read at the entry
\* of a call is that value, and in the step in which a caller returns the
\* shared sense equals its new local sense.
LocalSenseFlip ==
    /\ [](\A p \in Parties :
            /\ my_sense[p] = NegatedTimes(j[p])
            /\ InWait(p) => my_sense_local[p] = my_sense[p])
    /\ [][\A p \in Parties : FlipsOnReturn(p)]_vars

\* C31 witness: one caller has returned from two waits, its local sense
\* true again, the second time as last arriver; another has returned from
\* one, its local sense false, and is about to notice the second flip.
LocalSenseFlipWitness ==
    /\ Exact
    /\ flips = 2
    /\ \E p, q \in Parties :
          /\ j[p] = 2
          /\ my_sense[p]
          /\ bpc[p] = "idle"
          /\ j[q] = 1
          /\ ~my_sense[q]
          /\ bpc[q] = "poll"
          /\ sense # my_sense_local[q]
          /\ \A r \in Parties \ {p} : bpc[r] = "poll"

\* C32: with exactly N callers, the numbers of wait() calls any two callers
\* have completed differ by at most 1; and while a caller polls for the end
\* of its phase the sense has been flipped at most once since it arrived:
\* once flipped, it differs from the caller's copy until the caller leaves.
PhaseSkewBound ==
    Exact =>
        /\ \A p, q \in Parties : j[p] - j[q] <= 1
        /\ \A p \in Parties :
              bpc[p] = "poll" =>
                  /\ flips \in {j[p], j[p] + 1}
                  /\ (sense # my_sense_local[p]) <=> (flips = j[p] + 1)

\* C32 witness: a caller still polls for the end of a later phase, whose
\* flip it has not noticed, while another has returned from that phase, is
\* one wait ahead and polls for the end of the next.
PhaseSkewBoundWitness ==
    /\ Exact
    /\ \E p, q \in Parties :
          /\ j[p] >= 1
          /\ bpc[p] = "poll"
          /\ sense # my_sense_local[p]
          /\ j[q] = j[p] + 1
          /\ bpc[q] = "poll"
          /\ sense = my_sense_local[q]

\* C33: on every barrier instance, also one constructed after its callers
\* have completed wait() calls on another instance, a caller that has not
\* yet called wait() on it holds the local sense true, the initial shared
\* sense, and a caller has returned from its k-th wait() on the instance only
\* if every caller has performed the decrement of its k-th wait() on it.
InstancePhaseSeparation ==
    Exact =>
        /\ \A p \in Parties : (Begun(p) = 0) => my_sense[p] = TRUE
        /\ \A p, q \in Parties : j[p] <= Begun(q)

(***************************************************************************)
(* Properties of two MCSLock instances used with the thread-local node.    *)
(***************************************************************************)
\* the calls of t that have returned or that t is inside
Entered(t) == step[t] + (IF pc[t] \in {"idle", "done"} THEN 0 ELSE 1)

\* t has returned from acquire() on m and has not called release() on it since
Holds(t, m) ==
    \E i \in 1..step[t] :
        /\ plan[t][i] = <<"acquire", m>>
        /\ \A k \in (i + 1)..Entered(t) : plan[t][k] # <<"release", m>>

\* t's node is in the queue of some instance: a tail references it, or a
\* thread that took it as predecessor has still to link itself or to be
\* handed the lock
Linked(t) ==
    \/ \E m \in LockInstances : tailOf[m] = t
    \/ \E u \in Nesters :
          /\ predecessor[u] = t
          /\ \/ pc[u] = "link"
             \/ pc[u] = "spin" /\ node_locked[u]

\* t waits in release() for a successor's link that no thread is going to
\* store
Stranded(t) ==
    /\ pc[t] = "wait_next"
    /\ node_next[t] = NULL
    /\ \A u \in Nesters : ~(pc[u] = "link" /\ predecessor[u] = t)

\* at most one thread holds each instance
NestedExclusion ==
    \A m \in LockInstances : \A t, u \in Nesters :
        (Holds(t, m) /\ Holds(u, m)) => t = u

\* no acquire() initialises a node that is in a queue
NoLinkedInit == \A t \in Nesters : (pc[t] = "xchg") => ~Linked(t)

\* no release() waits for a link that never comes
NoStrandedRelease == \A t \in Nesters : ~Stranded(t)

\* C34: with the no-argument acquire() / release() on two MCSLock instances,
\* also when a thread holds both at once, at most one thread holds each
\* instance, no acquire() re-initialises a node that is still linked into a
\* queue, and no release() is left waiting for a successor that never links
\* itself (the calls all return).
NestedLocking == NestedExclusion /\ NoLinkedInit /\ NoStrandedRelease

\* the same for threads none of which holds two instances at once
UnnestedLocking ==
    (\A t \in Nesters : plan[t] # Nested) => NestedLocking

====
